---------------------------- MODULE Spec2Model ----------------------------
(***************************************************************************)
(* A verification model of the dynarmic A32 / A64 translator core:         *)
(*   - the A64 ExclusiveMonitor (include/dynarmic/A64/exclusive_monitor.h) *)
(*   - the A32 -> AArch64 emitter's block cache, block linking, return     *)
(*     stack buffer, fast dispatch table and fastmem demotion              *)
(*     (src/backend/A64/a32_emit_a64.cpp)                                  *)
(*   - the x64 saturation emitter (backend/x64/emit_x64_saturation.cpp)    *)
(*   - the decoder's Matcher (frontend/decoder/matcher.h)                  *)
(*   - the emitter's terminals, condition prelude, coprocessor and         *)
(*     exclusive-access instructions, BXWritePC and SetGEFlagsCompressed   *)
(*   - the flag instructions, the guest ranges of the blocks, the          *)
(*     supervisor call, and mp::conjunction (externals/mp)                 *)
(***************************************************************************)
EXTENDS Integers, Sequences, FiniteSets, TLC

(***************************************************************************)
(* Bounds of the model.                                                    *)
(***************************************************************************)
\* number of processors sharing the exclusive monitor
NumProcs == 2

(***************************************************************************)
(* Bit arithmetic on naturals.                                             *)
(***************************************************************************)
RECURSIVE Pow2(_)
Pow2(n) == IF n = 0 THEN 1 ELSE 2 * Pow2(n - 1)

RECURSIVE BitAnd(_, _)
BitAnd(a, b) ==
    IF a = 0 \/ b = 0 THEN 0
    ELSE (IF a % 2 = 1 /\ b % 2 = 1 THEN 1 ELSE 0) + 2 * BitAnd(a \div 2, b \div 2)

(***************************************************************************)
(* ExclusiveMonitor                                                        *)
(***************************************************************************)
Procs == 0 .. (NumProcs - 1)
\* two address words (two reservation granules) and one bit of data
Addrs == 0 .. 1
Vals  == 0 .. 1

\* 0xFFFF'FFFF'FFFF'FFFF, all ones: its low 31 bits, the integer width of the model
RESERVATION_GRANULE_MASK == 2147483647
\* 0xDEAD'DEAD'DEAD'DEAD: a value no masked address of the model takes
INVALID_EXCLUSIVE_ADDRESS == -1

VARIABLES
    is_locked,            \* std::atomic_flag is_locked
    exclusive_addresses,  \* std::vector<VAddr>, one per processor id
    exclusive_values,     \* std::vector<Vector>, one per processor id
    mem,                  \* the memory the op callbacks read and write
    mpc,                  \* position of each processor in its monitor call
    marg,                 \* arguments of the call in progress: address, value to store
    mloc,                 \* locals of the call in progress: value / saved_value, check result
    mhist,                \* per processor: the granule of its last marked read and the
                          \* writes other processors made to it since
    track_writes          \* whether mhist is kept (it is, under SpecMonitorHist)

monvars == <<is_locked, exclusive_addresses, exclusive_values, mem, mpc, marg, mloc, mhist,
             track_writes>>

VARIABLES
    config,               \* A32::UserConfig: the options the emitter reads
    em,                   \* A32EmitA64 and its base EmitA64: code arena and tables
    js,                   \* A32JitState: guest PC, upper_location_descriptor, RSB
    cpu                   \* where the guest executes, and what the last step did

emvars == <<config, em, js, cpu>>

VARIABLES
    sat,                  \* the saturation instruction last emitted and run: operands, results
    dec                   \* the instruction word last decoded, and what the decoder did

pvars == <<sat, dec>>

VARIABLES
    blk,   \* the IR block last handed to Emit, and the code emitted for it
    run,   \* the thread in that code: its JitState bytes, where it is, what it called
    cop,   \* the coprocessor instruction last emitted, and what was emitted for it
    gst,   \* the guest-state write last emitted and run: argument, lowering, JitState
    smp    \* two processors running LDREX / STREX / STR on one memory

xvars == <<blk, run, cop, gst, smp>>

VARIABLES
    flg,   \* the flag instruction last emitted and run: argument, lowering, JitState
    rng,   \* the block last given to block_ranges and the ranges last invalidated
    svc,   \* a CallSupervisor in progress: JitState cycle words, callbacks made, FP state
    mpv    \* the metavalue list last given to mp::conjunction, and its result

yvars == <<flg, rng, svc, mpv>>

MaskedAddress(address) == BitAnd(address, RESERVATION_GRANULE_MASK)

NoArg == [addr |-> 0, val |-> 0]
NoLoc == [value |-> 0, ok |-> FALSE]
NoHist == [addr |-> INVALID_EXCLUSIVE_ADDRESS, plain |-> FALSE, excl |-> FALSE, value |-> 0]

\* ExclusiveMonitor::ExclusiveMonitor(processor_count)
MonInit ==
    /\ is_locked = FALSE
    /\ exclusive_addresses = [p \in Procs |-> INVALID_EXCLUSIVE_ADDRESS]
    /\ exclusive_values = [p \in Procs |-> 0]
    /\ mem = [a \in Addrs |-> 0]
    /\ mpc = [p \in Procs |-> "idle"]
    /\ marg = [p \in Procs |-> NoArg]
    /\ mloc = [p \in Procs |-> NoLoc]
    /\ mhist = [p \in Procs |-> NoHist]
    /\ track_writes = FALSE

\* a write to address a by processor w is noted for every other processor whose
\* last marked read was of the same granule
NoteWrite(w, a, kind) ==
    [q \in Procs |->
        IF q # w /\ mhist[q].addr = MaskedAddress(a) /\ mhist[q].addr # INVALID_EXCLUSIVE_ADDRESS
        THEN IF kind = "excl" THEN [mhist[q] EXCEPT !.excl = TRUE]
                              ELSE [mhist[q] EXCEPT !.plain = TRUE]
        ELSE mhist[q]]

\* void ExclusiveMonitor::Lock(): spin on test_and_set until the flag was clear
Lock(p, from, to) ==
    /\ mpc[p] = from
    /\ is_locked = FALSE
    /\ is_locked' = TRUE
    /\ mpc' = [mpc EXCEPT ![p] = to]

\* void ExclusiveMonitor::Unlock(): clear the flag
Unlock == is_locked' = FALSE

\* T ReadAndMark(processor_id, address, op): entry
RM_Call(p) ==
    /\ mpc[p] = "idle"
    /\ mpc' = [mpc EXCEPT ![p] = "rm_lock"]
    /\ UNCHANGED <<track_writes, emvars, pvars, xvars, yvars>>
    /\ UNCHANGED <<is_locked, exclusive_addresses, exclusive_values, mem, marg, mloc, mhist>>

\* const VAddr masked_address = address & RESERVATION_GRANULE_MASK;  Lock();
\* (the address argument is drawn here, where it is first used)
RM_Lock(p) ==
    /\ Lock(p, "rm_lock", "rm_mark")
    /\ \E a \in Addrs : marg' = [marg EXCEPT ![p] = [addr |-> a, val |-> 0]]
    /\ UNCHANGED <<track_writes, emvars, pvars, xvars, yvars>>
    /\ UNCHANGED <<exclusive_addresses, exclusive_values, mem, mloc, mhist>>

\* a ReadAndMark that marks without holding the lock
RM_Mark_Unlocked(p) ==
    /\ mpc[p] \in {"rm_lock", "rm_mark"}
    /\ \E a \in Addrs :
          /\ mpc[p] = "rm_mark" => a = marg[p].addr
          /\ exclusive_addresses' = [exclusive_addresses EXCEPT ![p] = MaskedAddress(a)]
    /\ mpc' = [mpc EXCEPT ![p] = IF mpc[p] = "rm_mark" THEN "rm_op" ELSE "rm_lock"]
    /\ exclusive_addresses' # exclusive_addresses \/ mpc' # mpc
    /\ UNCHANGED <<track_writes, emvars, pvars, xvars, yvars>>
    /\ UNCHANGED <<is_locked, exclusive_values, mem, marg, mloc, mhist>>

\* exclusive_addresses[processor_id] = masked_address;
RM_Mark(p) ==
    /\ mpc[p] = "rm_mark"
    /\ exclusive_addresses' =
          [exclusive_addresses EXCEPT ![p] = MaskedAddress(marg[p].addr)]
    /\ mpc' = [mpc EXCEPT ![p] = "rm_op"]
    /\ UNCHANGED <<track_writes, emvars, pvars, xvars, yvars>>
    /\ UNCHANGED <<is_locked, exclusive_values, mem, marg, mloc, mhist>>

\* a ReadAndMark that releases the lock before its op has run
RM_Op_Unlocking(p) ==
    /\ mpc[p] = "rm_op"
    /\ is_locked = TRUE
    /\ is_locked' = FALSE
    /\ UNCHANGED <<track_writes, emvars, pvars, xvars, yvars>>
    /\ UNCHANGED <<exclusive_addresses, exclusive_values, mem, mpc, marg, mloc, mhist>>

\* a ReadAndMark that keeps the value in the slot of processor 0
RM_Op_SharedSlot(p) ==
    /\ mpc[p] = "rm_op"
    /\ mloc' = [mloc EXCEPT ![p].value = mem[marg[p].addr]]
    /\ exclusive_values' = [exclusive_values EXCEPT ![0] = mem[marg[p].addr]]
    /\ mhist' = IF track_writes
                THEN [mhist EXCEPT ![p] = [NoHist EXCEPT !.addr = MaskedAddress(marg[p].addr),
                                                         !.value = mem[marg[p].addr]]]
                ELSE mhist
    /\ mpc' = [mpc EXCEPT ![p] = "rm_unlock"]
    /\ UNCHANGED <<track_writes, emvars, pvars, xvars, yvars>>
    /\ UNCHANGED <<is_locked, exclusive_addresses, mem, marg>>
\* const T value = op();   the op reads the memory at the address
\* std::memcpy(exclusive_values[processor_id].data(), &value, sizeof(T));
RM_Op(p) ==
    /\ mpc[p] = "rm_op"
    /\ mloc' = [mloc EXCEPT ![p].value = mem[marg[p].addr]]
    /\ exclusive_values' = [exclusive_values EXCEPT ![p] = mem[marg[p].addr]]
    /\ mhist' = IF track_writes
                THEN [mhist EXCEPT ![p] = [NoHist EXCEPT !.addr = MaskedAddress(marg[p].addr),
                                                         !.value = mem[marg[p].addr]]]
                ELSE mhist
    /\ mpc' = [mpc EXCEPT ![p] = "rm_unlock"]
    /\ UNCHANGED <<track_writes, emvars, pvars, xvars, yvars>>
    /\ UNCHANGED <<is_locked, exclusive_addresses, mem, marg>>

\* Unlock(); return value;
RM_Unlock(p) ==
    /\ mpc[p] = "rm_unlock"
    /\ Unlock
    /\ mpc' = [mpc EXCEPT ![p] = "idle"]
    /\ marg' = [marg EXCEPT ![p] = NoArg]
    /\ mloc' = [mloc EXCEPT ![p] = NoLoc]
    /\ UNCHANGED <<track_writes, emvars, pvars, xvars, yvars>>
    /\ UNCHANGED <<exclusive_addresses, exclusive_values, mem, mhist>>

\* bool DoExclusiveOperation(processor_id, address, op): entry, into CheckAndClear
DX_Call(p) ==
    /\ mpc[p] = "idle"
    /\ mpc' = [mpc EXCEPT ![p] = "dx_lock"]
    /\ UNCHANGED <<track_writes, emvars, pvars, xvars, yvars>>
    /\ UNCHANGED <<is_locked, exclusive_addresses, exclusive_values, mem, marg, mloc, mhist>>

\* CheckAndClear: const VAddr masked_address = address & RESERVATION_GRANULE_MASK;  Lock();
\* (the address and the value the op stores are drawn here)
DX_Lock(p) ==
    /\ Lock(p, "dx_lock", "dx_check")
    /\ \E a \in Addrs, v \in Vals : marg' = [marg EXCEPT ![p] = [addr |-> a, val |-> v]]
    /\ UNCHANGED <<track_writes, emvars, pvars, xvars, yvars>>
    /\ UNCHANGED <<exclusive_addresses, exclusive_values, mem, mloc, mhist>>

\* a CheckAndClear that returns false with the lock held
CheckAndClear_KeepingLock(p) ==
    /\ mpc[p] = "dx_check"
    /\ IF exclusive_addresses[p] # MaskedAddress(marg[p].addr)
       THEN /\ mloc' = [mloc EXCEPT ![p].ok = FALSE]
            /\ UNCHANGED exclusive_addresses
       ELSE /\ exclusive_addresses' =
                  [q \in Procs |->
                      IF exclusive_addresses[q] = MaskedAddress(marg[p].addr)
                      THEN INVALID_EXCLUSIVE_ADDRESS
                      ELSE exclusive_addresses[q]]
            /\ mloc' = [mloc EXCEPT ![p].ok = TRUE]
    /\ UNCHANGED is_locked
    /\ mpc' = [mpc EXCEPT ![p] = "dx_ret"]
    /\ UNCHANGED <<track_writes, emvars, pvars, xvars, yvars>>
    /\ UNCHANGED <<exclusive_values, mem, marg, mhist>>
\* CheckAndClear after Lock(): on a mismatch Unlock() and return false; otherwise
\* clear every processor's reservation of the granule and return true, lock held
CheckAndClear(p) ==
    /\ mpc[p] = "dx_check"
    /\ IF exclusive_addresses[p] # MaskedAddress(marg[p].addr)
       THEN /\ Unlock
            /\ mloc' = [mloc EXCEPT ![p].ok = FALSE]
            /\ UNCHANGED exclusive_addresses
       ELSE /\ exclusive_addresses' =
                  [q \in Procs |->
                      IF exclusive_addresses[q] = MaskedAddress(marg[p].addr)
                      THEN INVALID_EXCLUSIVE_ADDRESS
                      ELSE exclusive_addresses[q]]
            /\ mloc' = [mloc EXCEPT ![p].ok = TRUE]
            /\ UNCHANGED is_locked
    /\ mpc' = [mpc EXCEPT ![p] = "dx_ret"]
    /\ UNCHANGED <<track_writes, emvars, pvars, xvars, yvars>>
    /\ UNCHANGED <<exclusive_values, mem, marg, mhist>>

\* a DoExclusiveOperation that goes on whatever CheckAndClear returned
DX_AfterCheck_Ignoring(p) ==
    /\ mpc[p] = "dx_ret"
    /\ mpc' = [mpc EXCEPT ![p] = "dx_op"]
    /\ mloc' = [mloc EXCEPT ![p].value = exclusive_values[p]]
    /\ UNCHANGED <<track_writes, emvars, pvars, xvars, yvars>>
    /\ UNCHANGED <<is_locked, exclusive_addresses, exclusive_values, mem, marg, mhist>>

\* if (!CheckAndClear(processor_id, address)) return false;
\* std::memcpy(&saved_value, exclusive_values[processor_id].data(), sizeof(T));
DX_AfterCheck(p) ==
    /\ mpc[p] = "dx_ret"
    /\ IF mloc[p].ok
       THEN /\ mpc' = [mpc EXCEPT ![p] = "dx_op"]
            /\ mloc' = [mloc EXCEPT ![p].value = exclusive_values[p]]
            /\ UNCHANGED marg
       ELSE /\ mpc' = [mpc EXCEPT ![p] = "idle"]
            /\ marg' = [marg EXCEPT ![p] = NoArg]
            /\ mloc' = [mloc EXCEPT ![p] = NoLoc]
    /\ UNCHANGED <<track_writes, emvars, pvars, xvars, yvars>>
    /\ UNCHANGED <<is_locked, exclusive_addresses, exclusive_values, mem, mhist>>

\* const bool result = op(saved_value);   the op stores the value at the address
DX_Op(p) ==
    /\ mpc[p] = "dx_op"
    /\ mem' = [mem EXCEPT ![marg[p].addr] = marg[p].val]
    /\ mhist' = NoteWrite(p, marg[p].addr, "excl")
    /\ mpc' = [mpc EXCEPT ![p] = "dx_unlock"]
    /\ UNCHANGED <<track_writes, emvars, pvars, xvars, yvars>>
    /\ UNCHANGED <<is_locked, exclusive_addresses, exclusive_values, marg, mloc>>

\* Unlock(); return result;
DX_Unlock(p) ==
    /\ mpc[p] = "dx_unlock"
    /\ Unlock
    /\ mpc' = [mpc EXCEPT ![p] = "idle"]
    /\ marg' = [marg EXCEPT ![p] = NoArg]
    /\ mloc' = [mloc EXCEPT ![p] = NoLoc]
    /\ mhist' = [mhist EXCEPT ![p] = NoHist]
    /\ UNCHANGED <<track_writes, emvars, pvars, xvars, yvars>>
    /\ UNCHANGED <<exclusive_addresses, exclusive_values, mem>>

\* void ExclusiveMonitor::ClearProcessor(processor_id): Lock, unmark, Unlock
ClearProcessor(p) ==
    /\ mpc[p] = "idle"
    /\ is_locked = FALSE
    /\ exclusive_addresses[p] # INVALID_EXCLUSIVE_ADDRESS
    /\ exclusive_addresses' = [exclusive_addresses EXCEPT ![p] = INVALID_EXCLUSIVE_ADDRESS]
    /\ UNCHANGED <<track_writes, emvars, pvars, xvars, yvars>>
    /\ UNCHANGED <<is_locked, exclusive_values, mem, mpc, marg, mloc, mhist>>

\* ClearProcessor and Clear as calls that take the lock: entry, Lock(), then the
\* unmarking and Unlock()
CP_Call(p) ==
    /\ mpc[p] = "idle"
    /\ mpc' = [mpc EXCEPT ![p] = "cp_lock"]
    /\ UNCHANGED <<track_writes, emvars, pvars, xvars, yvars>>
    /\ UNCHANGED <<is_locked, exclusive_addresses, exclusive_values, mem, marg, mloc, mhist>>
CP_Lock(p) ==
    /\ Lock(p, "cp_lock", "cp_clear")
    /\ UNCHANGED <<track_writes, emvars, pvars, xvars, yvars>>
    /\ UNCHANGED <<exclusive_addresses, exclusive_values, mem, marg, mloc, mhist>>
CP_Clear(p) ==
    /\ mpc[p] = "cp_clear"
    /\ exclusive_addresses' = [exclusive_addresses EXCEPT ![p] = INVALID_EXCLUSIVE_ADDRESS]
    /\ Unlock
    /\ mpc' = [mpc EXCEPT ![p] = "idle"]
    /\ UNCHANGED <<track_writes, emvars, pvars, xvars, yvars>>
    /\ UNCHANGED <<exclusive_values, mem, marg, mloc, mhist>>
CL_Call(p) ==
    /\ mpc[p] = "idle"
    /\ mpc' = [mpc EXCEPT ![p] = "cl_lock"]
    /\ UNCHANGED <<track_writes, emvars, pvars, xvars, yvars>>
    /\ UNCHANGED <<is_locked, exclusive_addresses, exclusive_values, mem, marg, mloc, mhist>>
CL_Lock(p) ==
    /\ Lock(p, "cl_lock", "cl_clear")
    /\ UNCHANGED <<track_writes, emvars, pvars, xvars, yvars>>
    /\ UNCHANGED <<exclusive_addresses, exclusive_values, mem, marg, mloc, mhist>>
CL_Clear(p) ==
    /\ mpc[p] = "cl_clear"
    /\ exclusive_addresses' = [q \in Procs |-> INVALID_EXCLUSIVE_ADDRESS]
    /\ Unlock
    /\ mpc' = [mpc EXCEPT ![p] = "idle"]
    /\ UNCHANGED <<track_writes, emvars, pvars, xvars, yvars>>
    /\ UNCHANGED <<exclusive_values, mem, marg, mloc, mhist>>

\* an ordinary (non-exclusive) store of a processor: it goes to memory through the
\* embedder's MemoryWrite callback and never touches the monitor
PlainWrite(p) ==
    /\ mpc[p] = "idle"
    /\ \E a \in Addrs, v \in Vals :
          /\ mem' = [mem EXCEPT ![a] = v]
          /\ mhist' = NoteWrite(p, a, "plain")
          /\ mem' # mem \/ mhist' # mhist
    /\ UNCHANGED <<track_writes, emvars, pvars, xvars, yvars>>
    /\ UNCHANGED <<is_locked, exclusive_addresses, exclusive_values, mpc, marg, mloc>>

MonNext ==
    \/ \E p \in Procs : RM_Call(p)
    \/ \E p \in Procs : RM_Lock(p)
    \/ \E p \in Procs : RM_Mark(p)
    \/ \E p \in Procs : RM_Op(p)
    \/ \E p \in Procs : RM_Unlock(p)
    \/ \E p \in Procs : DX_Call(p)
    \/ \E p \in Procs : DX_Lock(p)
    \/ \E p \in Procs : CheckAndClear(p)
    \/ \E p \in Procs : DX_AfterCheck(p)
    \/ \E p \in Procs : DX_Op(p)
    \/ \E p \in Procs : DX_Unlock(p)
    \/ \E p \in Procs : ClearProcessor(p)
    \/ \E p \in Procs : PlainWrite(p)

\* the calls of the monitor, each a sequence of steps of its processor
MonCallsNext ==
    \/ \E p \in Procs : RM_Call(p)
    \/ \E p \in Procs : RM_Lock(p)
    \/ \E p \in Procs : RM_Mark(p)
    \/ \E p \in Procs : RM_Op(p)
    \/ \E p \in Procs : RM_Unlock(p)
    \/ \E p \in Procs : DX_Call(p)
    \/ \E p \in Procs : DX_Lock(p)
    \/ \E p \in Procs : CheckAndClear(p)
    \/ \E p \in Procs : DX_AfterCheck(p)
    \/ \E p \in Procs : DX_Op(p)
    \/ \E p \in Procs : DX_Unlock(p)
    \/ \E p \in Procs : CP_Call(p)
    \/ \E p \in Procs : CP_Lock(p)
    \/ \E p \in Procs : CP_Clear(p)
    \/ \E p \in Procs : CL_Call(p)
    \/ \E p \in Procs : CL_Lock(p)
    \/ \E p \in Procs : CL_Clear(p)
(***************************************************************************)
(* A32EmitA64: descriptors, code pointers, the guest program               *)
(***************************************************************************)
\* capacity of the code arena, in emitted blocks
MaxBlocks == 3

\* guest addresses at which blocks start, and the values the upper half of the
\* JitState location descriptor takes (bit 0 is the T flag)
PCs == {0, 4}
Uppers == {0, 1}

\* A32::LocationDescriptor: PC, the mode bits of the upper half, single-stepping
Locations == [pc : PCs, upper : Uppers, single_step : BOOLEAN]

\* the single-stepping bit of the upper half of LocationDescriptor::UniqueHash()
SingleStepBit == 4

\* IR::LocationDescriptor::Value(), a u64, kept as its two 32-bit halves:
\* the PC below, the mode bits and the single-stepping bit above
UniqueHash(l) ==
    [lo |-> l.pc, hi |-> l.upper + (IF l.single_step THEN SingleStepBit ELSE 0)]

SetSingleStepping(l, b) == [l EXCEPT !.single_step = b]

\* 0xFFFF'FFFF'FFFF'FFFF: the descriptor of an empty FastDispatchEntry and of a
\* reset RSB slot; each half is the all-ones word
AllOnes == -1
EmptyDescriptor == [lo |-> AllOnes, hi |-> AllOnes]

\* CodePtr: nullptr, code.GetReturnFromRunCodeAddress(), and the entrypoints of
\* the blocks of the arena, numbered in emission order from 1
NullPtr == 0
ReturnFromRunCodeAddress == -1
CodePtrs == 1 .. MaxBlocks

\* the 32-bit words that are hashed into a fast dispatch index
Words == PCs \cup {u + s : u \in Uppers, s \in {0, SingleStepBit}}

\* --- CRC32CW -----------------------------------------------------------
\* a 32-bit word as the function from bit position to bit
Bits32(n) == [i \in 0 .. 31 |-> IF i > 30 THEN 0 ELSE (n \div Pow2(i)) % 2]
XorBits(a, b) == [i \in 0 .. 31 |-> (a[i] + b[i]) % 2]
\* 0x82F63B78, the reflected CRC-32C (Castagnoli) polynomial
Crc32cPoly ==
    [i \in 0 .. 31 |->
        IF i \in {31, 25, 23, 22, 21, 20, 18, 17, 13, 12, 11, 9, 8, 6, 5, 4, 3} THEN 1 ELSE 0]
ShiftRight1(a) == [i \in 0 .. 31 |-> IF i = 31 THEN 0 ELSE a[i + 1]]
RECURSIVE CrcRounds(_, _)
CrcRounds(c, n) ==
    IF n = 0 THEN c
    ELSE CrcRounds(IF c[0] = 1 THEN XorBits(ShiftRight1(c), Crc32cPoly) ELSE ShiftRight1(c),
                   n - 1)
\* CRC32CW Wd, Wn, Wm: the accumulator Wn folded with the 32 bits of Wm
CRC32CW(acc, data) == CrcRounds(XorBits(acc, data), 32)

\* reinterpret_cast<u64>(fast_dispatch_table.data()), low word: where the table
\* of this run lies (16-byte aligned)
FastDispatchTableAddress == 1193040
\* ANDI2R(..., fast_dispatch_table_mask): the byte offset of a 16-byte entry in
\* a table of 0x10000 entries
fast_dispatch_table_mask == 1048560
MaskBits(a, m) == [i \in 0 .. 31 |-> a[i] * m[i]]
RECURSIVE BitsValue(_, _)
BitsValue(a, i) == IF i > 30 THEN 0 ELSE a[i] + 2 * BitsValue(a, i + 1)

\* CRC32CW(word, table address) & fast_dispatch_table_mask, for the words of the model
FastDispatchIndex ==
    [w \in Words |->
        BitsValue(MaskBits(CRC32CW(Bits32(w), Bits32(FastDispatchTableAddress)),
                           Bits32(fast_dispatch_table_mask)), 0)]

\* the entries of the table the model can touch
Slots == {FastDispatchIndex[w] : w \in Words}

\* a fast dispatch lookup that hashes the upper word of the descriptor
fast_dispatch_table_lookup_upper(value) == FastDispatchIndex[value.hi]

\* FastDispatchEntry& (*fast_dispatch_table_lookup)(u64): hashes W0, the low
\* word of its argument
fast_dispatch_table_lookup(value) == FastDispatchIndex[value.lo]

\* FastDispatchEntry{}: location_descriptor = all ones, code_ptr = nullptr
EmptyEntry == [location_descriptor |-> EmptyDescriptor, code_ptr |-> NullPtr]

\* --- the guest program ---------------------------------------------------
\* the terminal the translator gives the block at a location; next is the link
\* target (never single-stepping), and the location itself where there is none
Terminal(l) ==
    LET here == SetSingleStepping(l, FALSE) IN
    IF l.pc = 0 /\ l.upper = 0
    THEN [kind |-> "LinkBlock", next |-> [here EXCEPT !.pc = 4]]
    ELSE IF l.pc = 4 /\ l.upper = 0
    THEN [kind |-> "PopRSBHint", next |-> here]
    ELSE IF l.pc = 0
    THEN [kind |-> "FastDispatchHint", next |-> here]
    ELSE [kind |-> "LinkBlockFast", next |-> [here EXCEPT !.pc = 0, !.upper = 0]]

\* the blocks at PC 4 with upper half 0 hold one guest memory access, their
\* instruction 0
HasMemoryAccess(l) == l.pc = 4 /\ l.upper = 0

\* block.EndLocation().PC(): every block is one 4-byte instruction
EndPC(l) == l.pc + 4

\* the guest ranges InvalidateCacheRanges is called with
Ranges == {[lo |-> 0, hi |-> 3], [lo |-> 4, hi |-> 7], [lo |-> 2, hi |-> 5]}

\* the configurations: fastmem stands for config.fastmem_pointer being set and
\* exception_handler.SupportsFastmem()
Configs ==
    [enable_fast_dispatch : BOOLEAN, enable_optimizations : BOOLEAN, fastmem : BOOLEAN,
     always_little_endian : BOOLEAN]

(***************************************************************************)
(* A32EmitA64: emission, patching, invalidation (functions of the emitter  *)
(* state e, a record of the emitter's members)                             *)
(***************************************************************************)
NoPatchInformation == [jg |-> {}, jmp |-> {}, mov_x0 |-> {}]

\* A32EmitA64::A32EmitA64: empty arena, ClearFastDispatchTable(), fastmem_patch_info.clear()
NewEmitter ==
    [code |-> <<>>,
     block_descriptors |-> [l \in Locations |-> NullPtr],
     block_ranges |-> {},
     patch_information |-> [l \in Locations |-> NoPatchInformation],
     fast_dispatch_table |-> [s \in Slots |-> EmptyEntry],
     do_not_fastmem |-> {},
     fastmem_patch_info |-> {},
     invalidated |-> {}]

\* EmitA64::GetBasicBlock: the entrypoint registered for a descriptor, if any
\* (none for a descriptor the map has never held)
GetBasicBlock(e, l) ==
    IF l \in DOMAIN e.block_descriptors THEN e.block_descriptors[l] ELSE NullPtr

\* GenerateDoNotFastmemMarker: (ctx.Location(), ctx.GetInstOffset(inst))
GenerateDoNotFastmemMarker(l) == [location |-> l, offset |-> 0]

ShouldFastmem(e, marker) == config.fastmem /\ marker \notin e.do_not_fastmem

\* EmitPatchJg / EmitPatchJmp: the site jumps to target_code_ptr, and with a null
\* target is the form that stores the target's PC and returns to the dispatcher
EmitPatchJg_Unlinked(image, target_code_ptr) == [image EXCEPT !.jump = NullPtr]
EmitPatchJg(image, target_code_ptr) == [image EXCEPT !.jump = target_code_ptr]
EmitPatchJmp_Unlinked(image, target_code_ptr) == [image EXCEPT !.jump = NullPtr]
EmitPatchJmp(image, target_code_ptr) == [image EXCEPT !.jump = target_code_ptr]
\* EmitPatchMovX0: a null target becomes the return-from-run-code address
EmitPatchMovX0(image, target_code_ptr) ==
    [image EXCEPT !.mov_x0 = IF target_code_ptr = NullPtr THEN ReturnFromRunCodeAddress
                             ELSE target_code_ptr]

\* EmitA64::Patch: rewrite every site recorded for the descriptor
Patch(e, l, target_code_ptr) ==
    LET info == e.patch_information[l]
        Rewrite(i) ==
            LET a == e.code[i]
                b == IF i \in info.jg THEN EmitPatchJg(a, target_code_ptr) ELSE a
                c == IF i \in info.jmp THEN EmitPatchJmp(b, target_code_ptr) ELSE b
            IN IF i \in info.mov_x0 THEN EmitPatchMovX0(c, target_code_ptr) ELSE c
    IN [e EXCEPT !.code = [i \in DOMAIN e.code |-> Rewrite(i)]]

\* an Unpatch that leaves the sites as they are
EmitA64_Unpatch_Keeping(e, l) == e
\* EmitA64::Unpatch
EmitA64_Unpatch(e, l) == Patch(e, l, NullPtr)

\* A32EmitA64::Unpatch: the base Unpatch, then the descriptor's fast dispatch
\* entry is reset
Unpatch(e, l) ==
    LET e1 == EmitA64_Unpatch(e, l) IN
    IF config.enable_fast_dispatch
    THEN [e1 EXCEPT !.fast_dispatch_table[fast_dispatch_table_lookup(UniqueHash(l))] =
                        EmptyEntry]
    ELSE e1

\* EmitA64::RegisterBlock: patch the sites waiting for the descriptor, record it
RegisterBlock(e, l, entrypoint) ==
    [Patch(e, l, entrypoint) EXCEPT !.block_descriptors[l] = entrypoint]

\* terminals emitted without looking at is_single_step
EmitTerminal_IgnoringStep(e, t, is_single_step) ==
    LET linked == config.enable_optimizations
        next_bb == GetBasicBlock(e, t.next)
        plain == [kind |-> t.kind, next |-> t.next, form |-> "return",
                  jump |-> NullPtr, mov_x0 |-> NullPtr]
    IN  IF t.kind = "LinkBlock" /\ linked
        THEN EmitPatchMovX0(EmitPatchJg([plain EXCEPT !.form = "jg"], next_bb), next_bb)
        ELSE IF t.kind = "LinkBlockFast" /\ linked
        THEN EmitPatchJmp([plain EXCEPT !.form = "jmp"], next_bb)
        ELSE IF t.kind = "PopRSBHint" /\ linked
        THEN [plain EXCEPT !.form = "pop_rsb_hint"]
        ELSE IF t.kind = "FastDispatchHint" /\ config.enable_fast_dispatch
        THEN [plain EXCEPT !.form = "fast_dispatch_hint"]
        ELSE plain

\* EmitTerminalImpl(LinkBlock / LinkBlockFast / PopRSBHint / FastDispatchHint):
\* the form of the terminal of a block, as it is emitted
EmitTerminal(e, t, is_single_step) ==
    LET linked == config.enable_optimizations /\ ~is_single_step
        next_bb == GetBasicBlock(e, t.next)
        plain == [kind |-> t.kind, next |-> t.next, form |-> "return",
                  jump |-> NullPtr, mov_x0 |-> NullPtr]
    IN  IF t.kind = "LinkBlock" /\ linked
        THEN EmitPatchMovX0(EmitPatchJg([plain EXCEPT !.form = "jg"], next_bb), next_bb)
        ELSE IF t.kind = "LinkBlockFast" /\ linked
        THEN EmitPatchJmp([plain EXCEPT !.form = "jmp"], next_bb)
        ELSE IF t.kind = "PopRSBHint" /\ linked
        THEN [plain EXCEPT !.form = "pop_rsb_hint"]
        ELSE IF t.kind = "FastDispatchHint" /\ config.enable_fast_dispatch /\ ~is_single_step
        THEN [plain EXCEPT !.form = "fast_dispatch_hint"]
        ELSE plain

\* patch_information[terminal.next].jg / .jmp .emplace_back(code.GetCodePtr()),
\* and the mov_x0 site PushRSBHelper records
RecordPatchSites(e, term, site) ==
    IF term.form = "jg"
    THEN [e EXCEPT !.patch_information[term.next].jg = @ \cup {site},
                   !.patch_information[term.next].mov_x0 = @ \cup {site}]
    ELSE IF term.form = "jmp"
    THEN [e EXCEPT !.patch_information[term.next].jmp = @ \cup {site}]
    ELSE e

\* ReadMemory / WriteMemory: the form of the block's memory access, and the
\* fastmem_patch_info record of a fastmem access
EmitMemoryAccess(e, l) ==
    IF ~HasMemoryAccess(l) THEN "none"
    ELSE IF ShouldFastmem(e, GenerateDoNotFastmemMarker(l)) THEN "fastmem"
    ELSE "slow"

\* A32EmitA64::Emit
Emit(e, l) ==
    LET entrypoint == Len(e.code) + 1
        term == EmitTerminal(e, Terminal(l), l.single_step)
        access == EmitMemoryAccess(e, l)
        image == [location |-> l, kind |-> term.kind, next |-> term.next, form |-> term.form,
                  jump |-> term.jump, mov_x0 |-> term.mov_x0, mem |-> access]
        e1 == [RecordPatchSites(e, term, entrypoint) EXCEPT
                  !.code = Append(@, image),
                  !.fastmem_patch_info =
                      IF access = "fastmem"
                      THEN @ \cup {[pc |-> entrypoint,
                                    marker |-> GenerateDoNotFastmemMarker(l)]}
                      ELSE @,
                  !.block_ranges = @ \cup {[lo |-> l.pc, hi |-> EndPC(l) - 1, location |-> l]}]
    IN RegisterBlock(e1, l, entrypoint)

\* EmitA64::InvalidateBasicBlocks: each descriptor that is in the cache is
\* unpatched and erased
RECURSIVE InvalidateBasicBlocks(_, _)
InvalidateBasicBlocks(e, locations) ==
    IF locations = {} THEN e
    ELSE LET l == CHOOSE x \in locations : TRUE
             e1 == IF e.block_descriptors[l] = NullPtr THEN e
                   ELSE [Unpatch(e, l) EXCEPT !.block_descriptors[l] = NullPtr]
         IN InvalidateBasicBlocks(e1, locations \ {l})

\* BlockRangeInformation::InvalidateRanges: the descriptors whose range meets the
\* given range; their entries leave the range map
InvalidateRanges(e, r) ==
    {b.location : b \in {x \in e.block_ranges : x.lo <= r.hi /\ r.lo <= x.hi}}

\* A32EmitA64::InvalidateCacheRanges
InvalidateCacheRanges(e, r) ==
    LET erase_locations == InvalidateRanges(e, r)
        e1 == [e EXCEPT !.block_ranges = {b \in @ : b.location \notin erase_locations},
                        !.invalidated = @ \cup ({e.block_descriptors[l] : l \in erase_locations}
                                              \ {NullPtr})]
    IN InvalidateBasicBlocks(e1, erase_locations)

\* a table that is never cleared
ClearFastDispatchTable_Keeping(e) == e

\* A32EmitA64::ClearFastDispatchTable
ClearFastDispatchTable(e) ==
    IF config.enable_fast_dispatch
    THEN [e EXCEPT !.fast_dispatch_table = [s \in Slots |-> EmptyEntry]]
    ELSE e

\* A32EmitA64::ClearCache: EmitA64::ClearCache() empties block_descriptors and
\* patch_information and rewinds the arena; then block_ranges.ClearCache(),
\* ClearFastDispatchTable(), fastmem_patch_info.clear()
ClearCache(e) ==
    LET e1 == [e EXCEPT !.code = <<>>,
                        !.block_descriptors = [l \in Locations |-> NullPtr],
                        !.patch_information = [l \in Locations |-> NoPatchInformation],
                        !.invalidated = {}]
        e2 == [e1 EXCEPT !.block_ranges = {}]
    IN [ClearFastDispatchTable(e2) EXCEPT !.fastmem_patch_info = {}]

\* A32EmitA64::DoNotFastmem
DoNotFastmem(e, marker) ==
    InvalidateBasicBlocks([e EXCEPT !.do_not_fastmem = @ \cup {marker}], {marker.location})

\* the callback ReadMemory / WriteMemory record for a fastmem site: the site is
\* rewritten into a branch to a thunk holding the slow access, then DoNotFastmem
FastmemPatchCallback(e, info) ==
    DoNotFastmem([e EXCEPT !.code[info.pc].mem = "thunk"], info.marker)

\* a fault callback that keeps the record of the PC
FastmemCallback_Keeping(e, PC) ==
    LET info == CHOOSE x \in e.fastmem_patch_info : x.pc = PC
    IN FastmemPatchCallback(e, info)

\* A32EmitA64::FastmemCallback, for a PC that has a record (the ASSERT is in the
\* action that reports the fault)
FastmemCallback(e, PC) ==
    LET info == CHOOSE x \in e.fastmem_patch_info : x.pc = PC
    IN [FastmemPatchCallback(e, info) EXCEPT !.fastmem_patch_info = @ \ {info}]

(***************************************************************************)
(* A32JitState and the handlers of GenTerminalHandlers                     *)
(***************************************************************************)
\* the RSB of the model has 2^RSBBits entries
RSBBits == 1
\* A32JitState::RSBPtrMask = RSBSize - 1, RSBSize a power of two
RSBPtrMask == Pow2(RSBBits) - 1
RSBIndices == 0 .. RSBPtrMask

\* the values the guest leaves in PC and upper_location_descriptor
LiveDescriptors == [pc : PCs, upper : Uppers]

\* A32JitState after construction: ResetRSB() fills the descriptors with all ones
\* and the code pointers with zero
NewJitState ==
    [pc |-> 0, upper |-> 0, rsb_ptr |-> 0,
     rsb_location_descriptors |-> [i \in RSBIndices |-> EmptyDescriptor],
     rsb_codeptrs |-> [i \in RSBIndices |-> NullPtr]]

\* a descriptor calculation that leaves the upper half out
calculate_location_descriptor_pc_only(j) == [lo |-> j.pc, hi |-> 0]

\* calculate_location_descriptor: upper_location_descriptor << 32 | PC
calculate_location_descriptor(j) == [lo |-> j.pc, hi |-> j.upper]

\* the descriptor the dispatcher looks up: the guest state, single-stepping or not
CurrentLocation(j, single_step) ==
    [pc |-> j.pc, upper |-> j.upper, single_step |-> single_step]

\* EmitA64::PushRSBHelper: the descriptor and the code pointer of the mov_x0 site
\* go to the slot at rsb_ptr, and rsb_ptr advances
PushRSBHelper(j, target, x0) ==
    [j EXCEPT !.rsb_location_descriptors[j.rsb_ptr] = UniqueHash(target),
              !.rsb_codeptrs[j.rsb_ptr] = x0,
              !.rsb_ptr = BitAnd(j.rsb_ptr + 1, RSBPtrMask)]

\* a pop handler that resets the slot it did not match
PopRSBHintHandler_Invalidating(j) ==
    LET index == BitAnd((j.rsb_ptr - 1) % Pow2(30), RSBPtrMask)
        hit == calculate_location_descriptor(j) = j.rsb_location_descriptors[index]
    IN [js |-> IF hit THEN [j EXCEPT !.rsb_ptr = index]
               ELSE [j EXCEPT !.rsb_ptr = index,
                              !.rsb_location_descriptors[index] = EmptyDescriptor],
        index |-> index,
        found |-> j.rsb_location_descriptors[index],
        hit |-> hit,
        target |-> j.rsb_codeptrs[index]]

\* a pop handler that stores the decremented rsb_ptr back only on a match
PopRSBHintHandler_StoringOnMatch(j) ==
    LET index == BitAnd((j.rsb_ptr - 1) % Pow2(30), RSBPtrMask)
        hit == calculate_location_descriptor(j) = j.rsb_location_descriptors[index]
    IN [js |-> IF hit THEN [j EXCEPT !.rsb_ptr = index] ELSE j,
        index |-> index,
        found |-> j.rsb_location_descriptors[index],
        hit |-> hit,
        target |-> j.rsb_codeptrs[index]]

\* terminal_handler_pop_rsb_hint up to the compare: rsb_ptr is decremented in 32
\* bits (taken modulo 2^30 here, which the mask does not see), masked and stored
\* back; the slot at the new rsb_ptr is compared with the live descriptor
PopRSBHintHandler(j) ==
    LET index == BitAnd((j.rsb_ptr - 1) % Pow2(30), RSBPtrMask)
    IN [js |-> [j EXCEPT !.rsb_ptr = index],
        index |-> index,
        found |-> j.rsb_location_descriptors[index],
        hit |-> calculate_location_descriptor(j) = j.rsb_location_descriptors[index],
        target |-> j.rsb_codeptrs[index]]

\* Jit::GetCurrentBlock behind code.LookupBlock(): the block of the descriptor,
\* compiled and emitted now if the cache does not hold it
CanLookupBlock(e, l) == GetBasicBlock(e, l) # NullPtr \/ Len(e.code) < MaxBlocks
LookupBlock(e, l) == IF GetBasicBlock(e, l) # NullPtr THEN e ELSE Emit(e, l)

\* terminal_handler_fast_dispatch_hint (entered at the top, or from a miss of the
\* RSB): the entry is indexed by the CRC of the PC with the table address
FastDispatchHintHandler(e, j) ==
    LET live  == calculate_location_descriptor(j)
        index == FastDispatchIndex[j.pc]
        entry == e.fast_dispatch_table[index]
        l     == CurrentLocation(j, FALSE)
    IN  IF entry.location_descriptor = live
        THEN [em |-> e, hit |-> TRUE, index |-> index, target |-> entry.code_ptr]
        ELSE LET e1 == [e EXCEPT !.fast_dispatch_table[index].location_descriptor = live]
                 e2 == LookupBlock(e1, l)
                 code_ptr == GetBasicBlock(e2, l)
             IN [em |-> [e2 EXCEPT !.fast_dispatch_table[index].code_ptr = code_ptr],
                 hit |-> FALSE, index |-> index, target |-> code_ptr]

\* whether the handler can go on: a miss needs the block or room to emit it
CanFastDispatch(e, j) ==
    \/ e.fast_dispatch_table[FastDispatchIndex[j.pc]].location_descriptor =
           calculate_location_descriptor(j)
    \/ CanLookupBlock(e, CurrentLocation(j, FALSE))

\* get_upper: the upper half of the descriptor with single-stepping cleared
get_upper(desc) == UniqueHash(SetSingleStepping(desc, FALSE)).hi

\* the same without the mask of always_little_endian
EmitSetUpperLocationDescriptor_Unmasked(j, new_location, old_location) ==
    LET old_upper == get_upper(old_location)
        new_upper == get_upper(new_location)
    IN IF old_upper # new_upper THEN [j EXCEPT !.upper = new_upper] ELSE j

\* EmitSetUpperLocationDescriptor(new_location, old_location): the new upper half
\* is masked with ~0x2 (the E bit) under always_little_endian, and the store is
\* emitted only if it differs from the old upper half
EmitSetUpperLocationDescriptor(j, new_location, old_location) ==
    LET old_upper == get_upper(old_location)
        mask == IF config.always_little_endian THEN 2 ELSE 0
        new_upper == get_upper(new_location) - BitAnd(get_upper(new_location), mask)
    IN IF old_upper # new_upper THEN [j EXCEPT !.upper = new_upper] ELSE j

(***************************************************************************)
(* Where the guest executes: in the host ("host"), at the memory access or  *)
(* at the terminal of the block at a code pointer ("mem", "term"), in       *)
(* memory that holds no block ("lost"), or nowhere after a failed ASSERT    *)
(* ("assert"); via is the way the last jump was made                        *)
(***************************************************************************)
Host(via) == [mode |-> "host", at |-> NullPtr, via |-> via]

\* a jump to a code pointer: back to the dispatcher, into the block that starts
\* there, or into memory that holds no block
Enter(e, ptr, via) ==
    IF ptr = ReturnFromRunCodeAddress THEN Host(via)
    ELSE IF ptr \notin DOMAIN e.code
    THEN [mode |-> "lost", at |-> ptr, via |-> via]
    ELSE [mode |-> IF e.code[ptr].mem = "none" THEN "term" ELSE "mem",
          at |-> ptr, via |-> via]

EmInit ==
    /\ config \in Configs
    /\ em = NewEmitter
    /\ js = NewJitState
    /\ cpu = Host("none")

(***************************************************************************)
(* The Jit facade: the calls of the embedder                               *)
(***************************************************************************)
\* the embedder sets the guest registers (PC, CPSR, FPSCR) between runs
Jit_SetRegisters ==
    /\ cpu.mode = "host"
    /\ \E d \in LiveDescriptors :
          /\ d # [pc |-> js.pc, upper |-> js.upper]
          /\ js' = [js EXCEPT !.pc = d.pc, !.upper = d.upper]
    /\ cpu' = Host("none")
    /\ UNCHANGED <<config, em, monvars, pvars, xvars, yvars>>

\* Jit::Run: the dispatcher looks the current descriptor up and jumps to its block
Jit_Run ==
    /\ cpu.mode = "host"
    /\ LET l == CurrentLocation(js, FALSE) IN
          /\ CanLookupBlock(em, l)
          /\ em' = LookupBlock(em, l)
          /\ cpu' = Enter(em', GetBasicBlock(em', l), "dispatcher")
    /\ UNCHANGED <<config, js, monvars, pvars, xvars, yvars>>

\* Jit::Step: the same with the single-stepping descriptor
Jit_Step ==
    /\ cpu.mode = "host"
    /\ LET l == CurrentLocation(js, TRUE) IN
          /\ CanLookupBlock(em, l)
          /\ em' = LookupBlock(em, l)
          /\ cpu' = Enter(em', GetBasicBlock(em', l), "dispatcher")
    /\ UNCHANGED <<config, js, monvars, pvars, xvars, yvars>>

\* Jit::InvalidateCacheRange
Jit_InvalidateCacheRange ==
    /\ cpu.mode = "host"
    /\ \E r \in Ranges :
          /\ em' = InvalidateCacheRanges(em, r)
          /\ cpu' = Host("InvalidateCacheRanges")
    /\ UNCHANGED <<config, js, monvars, pvars, xvars, yvars>>

\* Jit::ClearCache
Jit_ClearCache ==
    /\ cpu.mode = "host"
    /\ Len(em.code) > 0
    /\ em' = ClearCache(em)
    /\ cpu' = Host("none")
    /\ UNCHANGED <<config, js, monvars, pvars, xvars, yvars>>

(***************************************************************************)
(* The emitted code as it runs                                             *)
(***************************************************************************)
\* the block's memory access goes through without a fault
Mem_Access ==
    /\ cpu.mode = "mem"
    /\ cpu' = [cpu EXCEPT !.mode = "term"]
    /\ UNCHANGED <<config, em, js, monvars, pvars, xvars, yvars>>

\* the host signals a fault at the PC of the block's memory access: the handler
\* registered in the constructor calls FastmemCallback(PC), whose ASSERT ends the
\* process when the PC has no record; otherwise the access is run again
Mem_Fault ==
    /\ cpu.mode = "mem"
    /\ IF \E info \in em.fastmem_patch_info : info.pc = cpu.at
       THEN /\ em' = FastmemCallback(em, cpu.at)
            /\ cpu' = cpu
       ELSE /\ em' = em
            /\ cpu' = [cpu EXCEPT !.mode = "assert"]
    /\ UNCHANGED <<config, js, monvars, pvars, xvars, yvars>>

\* LinkBlock: the upper half is set; then either the form that stores the PC and
\* returns, or the compare of the remaining cycles with the patched jump (taken
\* when they are positive) and the far code that pushes the RSB and leaves
\* through ForceReturnFromRunCode
Terminal_LinkBlock ==
    /\ cpu.mode = "term"
    /\ em.code[cpu.at].kind = "LinkBlock"
    /\ LET image == em.code[cpu.at]
           j1 == EmitSetUpperLocationDescriptor(js, image.next, image.location)
           stored == [j1 EXCEPT !.pc = image.next.pc]
       IN  \E cycles_positive \in BOOLEAN :
              IF image.form = "return"
              THEN js' = stored /\ cpu' = Host("none")
              ELSE IF ~cycles_positive
              THEN /\ js' = PushRSBHelper(stored, image.next, image.mov_x0)
                   /\ cpu' = Host("ForceReturnFromRunCode")
              ELSE IF image.jump = NullPtr
              THEN js' = stored /\ cpu' = Host("none")
              ELSE js' = j1 /\ cpu' = Enter(em, image.jump, "link")
    /\ UNCHANGED <<config, em, monvars, pvars, xvars, yvars>>

\* LinkBlockFast: the same without the compare and without the RSB
Terminal_LinkBlockFast ==
    /\ cpu.mode = "term"
    /\ em.code[cpu.at].kind = "LinkBlockFast"
    /\ LET image == em.code[cpu.at]
           j1 == EmitSetUpperLocationDescriptor(js, image.next, image.location)
       IN  IF image.form = "return" \/ image.jump = NullPtr
           THEN js' = [j1 EXCEPT !.pc = image.next.pc] /\ cpu' = Host("none")
           ELSE js' = j1 /\ cpu' = Enter(em, image.jump, "link")
    /\ UNCHANGED <<config, em, monvars, pvars, xvars, yvars>>

(***************************************************************************)
(* A32EmitA64::Emit of one IR block: the condition prelude, the body, the  *)
(* cycle count and the terminal, a tree of IR::Term values                 *)
(***************************************************************************)
\* how deep If / CheckBit / CheckHalt nest in the terminals of the model
MaxTerminalDepth == 1

\* A32::LocationDescriptor::TFlag / EFlag: bits 0 and 1 of the upper half
TFlag(l) == l.upper % 2 = 1
EFlag(l) == (l.upper \div 2) % 2 = 1

\* the leaves: Interpret to a location with the same or other T and E flags,
\* ReturnToDispatch, LinkBlock and LinkBlockFast to a location with the same or
\* another T flag, with and without the E flag
TerminalLeaves ==
    {[kind |-> "Interpret", next |-> [pc |-> 4, upper |-> u, single_step |-> FALSE],
      num_instructions |-> n] : u \in 0 .. 2, n \in 1 .. 2}
    \cup {[kind |-> "ReturnToDispatch"]}
    \cup {[kind |-> "LinkBlock", next |-> [pc |-> 4, upper |-> u, single_step |-> FALSE]] :
             u \in {1, 3}}
    \cup {[kind |-> "LinkBlockFast", next |-> [pc |-> 4, upper |-> 2, single_step |-> FALSE]]}

\* IR::Term::Terminal: a leaf, or If / CheckBit / CheckHalt over terminals
RECURSIVE Terminals(_)
Terminals(depth) ==
    IF depth = 0 THEN TerminalLeaves
    ELSE LET below == Terminals(depth - 1) IN
         TerminalLeaves
         \cup {[kind |-> "CheckHalt", else_ |-> e] : e \in below}
         \cup {[kind |-> "CheckBit", then_ |-> t, else_ |-> e] : t \in below, e \in below}
         \cup {[kind |-> "If", if_ |-> "EQ", then_ |-> t, else_ |-> e] : t \in below, e \in below}

\* the body of every block: two instructions, neither of which leaves the block
BodyLength == 2
\* block.CycleCount() and block.ConditionFailedCycleCount()
CycleCount == 2
ConditionFailedCycleCount == 1

\* the IR blocks handed to Emit: cond_failed is the optional ConditionFailedLocation
IRBlocks ==
    [location : {l \in Locations : l.pc = 0},
     cond : {"AL", "EQ"},
     cond_failed : {<<>>, <<[pc |-> 4, upper |-> 0, single_step |-> FALSE]>>},
     terminal : Terminals(MaxTerminalDepth)]

HasConditionFailedLocation(block) == block.cond_failed # <<>>
ConditionFailedLocation(block) == block.cond_failed[1]

AssertFailed == [kind |-> "assert"]

\* EmitTerminalImpl(IR::Term::Interpret): the two ASSERT_MSGs, then the code
EmitTerminalImpl_Interpret(t, initial_location) ==
    IF TFlag(t.next) # TFlag(initial_location) \/ EFlag(t.next) # EFlag(initial_location)
    THEN AssertFailed
    ELSE t

\* EmitA64::EmitTerminal: the EmitTerminalImpl of the terminal's kind; a failed
\* ASSERT below fails the whole emission
RECURSIVE EmitTerminalImpl(_, _, _, _)
EmitTerminalImpl(e, t, initial_location, is_single_step) ==
    IF t.kind = "Interpret" THEN EmitTerminalImpl_Interpret(t, initial_location)
    ELSE IF t.kind = "ReturnToDispatch" THEN t
    ELSE IF t.kind \in {"LinkBlock", "LinkBlockFast"} THEN EmitTerminal(e, t, is_single_step)
    ELSE IF t.kind = "CheckHalt"
    THEN LET else_ == EmitTerminalImpl(e, t.else_, initial_location, is_single_step)
         IN  IF else_ = AssertFailed THEN AssertFailed ELSE [t EXCEPT !.else_ = else_]
    ELSE LET else_ == EmitTerminalImpl(e, t.else_, initial_location, is_single_step)
             then_ == EmitTerminalImpl(e, t.then_, initial_location, is_single_step)
         IN  IF else_ = AssertFailed \/ then_ = AssertFailed THEN AssertFailed
             ELSE [t EXCEPT !.then_ = then_, !.else_ = else_]

\* a prelude emitted without its ASSERTs
EmitCondPrelude_Unchecked(e, block) ==
    IF block.cond = "AL" \/ ~HasConditionFailedLocation(block) THEN [kind |-> "none"]
    ELSE [kind |-> "cond", cond |-> block.cond, cycles |-> ConditionFailedCycleCount,
          terminal |-> EmitTerminalImpl(e, [kind |-> "LinkBlock",
                                            next |-> ConditionFailedLocation(block)],
                                        block.location, block.location.single_step)]

\* A32EmitA64::EmitCondPrelude: nothing for AL; otherwise the branch on the
\* condition over EmitAddCycles and the LinkBlock to the condition-failed location
EmitCondPrelude(e, block) ==
    IF block.cond = "AL"
    THEN IF HasConditionFailedLocation(block) THEN AssertFailed ELSE [kind |-> "none"]
    ELSE IF ~HasConditionFailedLocation(block) THEN AssertFailed
    ELSE [kind |-> "cond", cond |-> block.cond, cycles |-> ConditionFailedCycleCount,
          terminal |-> EmitTerminalImpl(e, [kind |-> "LinkBlock",
                                            next |-> ConditionFailedLocation(block)],
                                        block.location, block.location.single_step)]

\* A32EmitA64::Emit for the block: prelude, instructions, EmitAddCycles, terminal
EmitIRBlock(e, block) ==
    LET prelude == EmitCondPrelude(e, block)
        terminal == EmitTerminalImpl(e, block.terminal,
                                     SetSingleStepping(block.location, FALSE),
                                     block.location.single_step)
    IN  IF prelude = AssertFailed \/ terminal = AssertFailed
        THEN [status |-> "assert", ir |-> block, prelude |-> AssertFailed,
              terminal |-> AssertFailed]
        ELSE [status |-> "emitted", ir |-> block, prelude |-> prelude, terminal |-> terminal]

NoBlock == [status |-> "none"]

\* the thread between runs: the halt and check bytes of A32JitState are zero
NoRun ==
    [at |-> "host", term |-> <<>>, halt_requested |-> 0, check_bit |-> 0, fp |-> "host",
     executed |-> 0, cycles |-> 0, cond_failed |-> FALSE, called |-> <<>>, via |-> "none"]

\* the translator emits the block of this run of the model
A32EmitA64_Emit ==
    /\ blk = NoBlock
    /\ run.at = "host"
    /\ \E block \in IRBlocks : blk' = EmitIRBlock(em, block)
    /\ UNCHANGED <<run, cop, gst, smp, monvars, emvars, pvars, yvars>>

\* Jit::HaltExecution, from any thread at any time: the halt byte is set
Jit_HaltExecution ==
    /\ blk.status # "assert"
    /\ run' = [run EXCEPT !.halt_requested = 1]
    /\ UNCHANGED <<blk, cop, gst, smp, monvars, emvars, pvars, yvars>>

\* the guest state is at the block's location; the dispatcher finds the block,
\* switches to the guest's FP state and enters it
Run_Enter ==
    /\ blk.status = "emitted"
    /\ run.at = "host"
    /\ js' = [js EXCEPT !.pc = blk.ir.location.pc, !.upper = blk.ir.location.upper]
    /\ run' = [run EXCEPT !.at = "prelude", !.term = <<>>, !.fp = "guest", !.executed = 0,
                          !.cycles = 0, !.cond_failed = FALSE, !.called = <<>>,
                          !.via = "dispatcher"]
    /\ UNCHANGED <<blk, cop, gst, smp, monvars, config, em, cpu, pvars, yvars>>

\* the prelude: the branch on the block's condition, taken to the body when it
\* passes; otherwise the cycles are added and the LinkBlock terminal follows
Run_CondPrelude ==
    /\ run.at = "prelude"
    /\ IF blk.prelude.kind = "none"
       THEN run' = [run EXCEPT !.at = "body"]
       ELSE \E passed \in BOOLEAN :
               run' = IF passed THEN [run EXCEPT !.at = "body"]
                      ELSE [run EXCEPT !.at = "terminal", !.term = <<blk.prelude.terminal>>,
                                       !.cycles = @ + blk.prelude.cycles,
                                       !.cond_failed = TRUE]
    /\ UNCHANGED <<blk, cop, gst, smp, monvars, emvars, pvars, yvars>>

\* one instruction of the body (it may write the check bit); after the last one
\* the block's cycle count is added and the terminal follows
Run_Inst ==
    /\ run.at = "body"
    /\ \E check_bit \in {0, 1} :
          run' = IF run.executed + 1 < BodyLength
                 THEN [run EXCEPT !.executed = @ + 1, !.check_bit = check_bit]
                 ELSE [run EXCEPT !.executed = @ + 1, !.check_bit = check_bit,
                                  !.cycles = @ + CycleCount,
                                  !.at = "terminal", !.term = <<blk.terminal>>]
    /\ UNCHANGED <<blk, cop, gst, smp, monvars, emvars, pvars, yvars>>

\* a CheckHalt that goes on to its else terminal whatever the byte holds
CheckHalt_Unpolled(r, t) == [r EXCEPT !.term = <<t.else_>>]

\* the code of EmitTerminalImpl(IR::Term::CheckHalt): LDRB halt_requested, CBZ over
\* the branch to ForceReturnFromRunCode, then the else terminal
CheckHalt(r, t) ==
    IF r.halt_requested # 0
    THEN [r EXCEPT !.at = "host", !.term = <<>>, !.fp = "host",
                   !.via = "ForceReturnFromRunCode"]
    ELSE [r EXCEPT !.term = <<t.else_>>]

Run_CheckHalt ==
    /\ run.at = "terminal"
    /\ run.term[1].kind = "CheckHalt"
    /\ run' = CheckHalt(run, run.term[1])
    /\ UNCHANGED <<blk, cop, gst, smp, monvars, emvars, pvars, yvars>>

\* EmitTerminalImpl(IR::Term::CheckBit): LDRB check_bit, CBZ to the else terminal
Run_CheckBit ==
    /\ run.at = "terminal"
    /\ run.term[1].kind = "CheckBit"
    /\ run' = [run EXCEPT !.term = IF run.check_bit = 0 THEN <<run.term[1].else_>>
                                   ELSE <<run.term[1].then_>>]
    /\ UNCHANGED <<blk, cop, gst, smp, monvars, emvars, pvars, yvars>>

\* EmitTerminalImpl(IR::Term::If): the branch on the condition to the then terminal
Run_If ==
    /\ run.at = "terminal"
    /\ run.term[1].kind = "If"
    /\ \E passed \in BOOLEAN :
          run' = [run EXCEPT !.term = IF passed THEN <<run.term[1].then_>>
                                      ELSE <<run.term[1].else_>>]
    /\ UNCHANGED <<blk, cop, gst, smp, monvars, emvars, pvars, yvars>>

\* an Interpret terminal that calls the interpreter in the guest's FP state
Interpret_NoSwitch(r, t) ==
    [r EXCEPT !.called = <<[callback |-> "InterpreterFallback", pc |-> t.next.pc,
                            num_instructions |-> t.num_instructions,
                            jit_state_pc |-> t.next.pc, fp |-> r.fp]>>,
              !.fp = "host", !.at = "host", !.term = <<>>, !.via = "ReturnFromRunCode"]

\* the code of EmitTerminalImpl(IR::Term::Interpret): PC of next and the count in
\* the argument registers, PC stored, SwitchFpscrOnExit, InterpreterFallback
\* called, ReturnFromRunCode(true)
Interpret(r, t) ==
    [r EXCEPT !.called = <<[callback |-> "InterpreterFallback", pc |-> t.next.pc,
                            num_instructions |-> t.num_instructions,
                            jit_state_pc |-> t.next.pc, fp |-> "host"]>>,
              !.fp = "host", !.at = "host", !.term = <<>>, !.via = "ReturnFromRunCode"]

\* the terminal as it runs; the callback leaves the guest where its
\* instructions end
Run_Interpret ==
    /\ run.at = "terminal"
    /\ run.term[1].kind = "Interpret"
    /\ run' = Interpret(run, run.term[1])
    /\ \E pc \in PCs : js' = [js EXCEPT !.pc = pc]
    /\ UNCHANGED <<blk, cop, gst, smp, monvars, config, em, cpu, pvars, yvars>>

\* EmitTerminalImpl(IR::Term::ReturnToDispatch): ReturnFromRunCode, which
\* switches the FP state back
Run_ReturnToDispatch ==
    /\ run.at = "terminal"
    /\ run.term[1].kind = "ReturnToDispatch"
    /\ run' = [run EXCEPT !.at = "host", !.term = <<>>, !.fp = "host",
                          !.via = "ReturnFromRunCode"]
    /\ UNCHANGED <<blk, cop, gst, smp, monvars, emvars, pvars, yvars>>

\* a LinkBlock terminal as it runs: as Terminal_LinkBlock, for the form emitted
\* here, whose target no block was ever registered for
Run_LinkBlock ==
    /\ run.at = "terminal"
    /\ run.term[1].kind = "LinkBlock"
    /\ LET image == run.term[1]
           j1 == EmitSetUpperLocationDescriptor(js, image.next, blk.ir.location)
           stored == [j1 EXCEPT !.pc = image.next.pc]
       IN  \E cycles_positive \in BOOLEAN :
              IF image.form = "return" \/ cycles_positive
              THEN /\ js' = stored
                   /\ run' = [run EXCEPT !.at = "host", !.term = <<>>, !.fp = "host",
                                         !.via = "ReturnFromRunCode"]
              ELSE /\ js' = PushRSBHelper(stored, image.next, image.mov_x0)
                   /\ run' = [run EXCEPT !.at = "host", !.term = <<>>, !.fp = "host",
                                         !.via = "ForceReturnFromRunCode"]
    /\ UNCHANGED <<blk, cop, gst, smp, monvars, config, em, cpu, pvars, yvars>>

\* a LinkBlockFast terminal as it runs: as Terminal_LinkBlockFast, its target
\* never registered
Run_LinkBlockFast ==
    /\ run.at = "terminal"
    /\ run.term[1].kind = "LinkBlockFast"
    /\ LET image == run.term[1]
           j1 == EmitSetUpperLocationDescriptor(js, image.next, blk.ir.location)
       IN  /\ js' = [j1 EXCEPT !.pc = image.next.pc]
           /\ run' = [run EXCEPT !.at = "host", !.term = <<>>, !.fp = "host",
                                 !.via = "ReturnFromRunCode"]
    /\ UNCHANGED <<blk, cop, gst, smp, monvars, config, em, cpu, pvars, yvars>>

BlockNext ==
    \/ A32EmitA64_Emit
    \/ Jit_HaltExecution
    \/ Run_Enter
    \/ Run_CondPrelude
    \/ Run_Inst
    \/ Run_CheckHalt
    \/ Run_CheckBit
    \/ Run_If
    \/ Run_Interpret
    \/ Run_ReturnToDispatch
    \/ Run_LinkBlock
    \/ Run_LinkBlockFast

(***************************************************************************)
(* The host instructions the x64 saturation emitter writes                 *)
(* (backend/x64/emit_x64_saturation.cpp).  A 64-bit register is four       *)
(* 16-bit limbs, least significant first; an operation of width w reads    *)
(* the low w bits of its operands and writes its destination as the host   *)
(* does: a 32-bit write clears the upper half, an 8- or 16-bit write       *)
(* leaves the rest of the register as it was.                              *)
(***************************************************************************)
Limb == Pow2(16)
Byte == Pow2(8)
\* the powers of two of one limb
Pow2Of == [k \in 0 .. 16 |-> Pow2(k)]
ZeroReg == <<0, 0, 0, 0>>

\* the low w bits of a register
Trunc(v, w) ==
    [i \in 1 .. 4 |-> IF 16 * (i - 1) >= w THEN 0
                      ELSE IF w = 8 THEN v[i] % Byte ELSE v[i]]

Bit(v, k) == (v[(k \div 16) + 1] \div Pow2Of[k % 16]) % 2
Sign(v, w) == Bit(v, w - 1)

RECURSIVE LimbSum(_, _, _)
LimbSum(b, base, j) ==
    IF j = 16 THEN 0 ELSE b[base + j] * Pow2Of[j] + LimbSum(b, base, j + 1)

\* the register whose bit j is b[j]
FromBits(b) == [i \in 1 .. 4 |-> LimbSum(b, 16 * (i - 1), 0)]

\* an immediate below 2^31, and the all-ones immediates of each width
Imm(k) == <<k % Limb, k \div Limb, 0, 0>>
Ones(w) == Trunc(<<Limb - 1, Limb - 1, Limb - 1, Limb - 1>>, w)
\* std::numeric_limits<signed w-bit>::max()
IntMax(w) == FromBits([j \in 0 .. 63 |-> IF j < w - 1 THEN 1 ELSE 0])

\* what a write of width w leaves in the destination register
Merge(old, v, w) ==
    IF w >= 32 THEN Trunc(v, w)
    ELSE IF w = 16 THEN [old EXCEPT ![1] = v[1]]
    ELSE [old EXCEPT ![1] = (old[1] \div Byte) * Byte + (v[1] % Byte)]

Put(m, d, w, v) == [m EXCEPT !.r[d] = Merge(@, v, w)]

RECURSIVE Ripple(_, _, _, _)
Ripple(a, b, c, i) ==
    IF i > 4 THEN <<c>>
    ELSE <<(a[i] + b[i] + c) % Limb>> \o Ripple(a, b, (a[i] + b[i] + c) \div Limb, i + 1)

\* a + b + cin at width w, with the flags the host adder sets
AddW(a, b, cin, w) ==
    LET x == Trunc(a, w)
        y == Trunc(b, w)
        s == Ripple(x, y, cin, 1)
        v == Trunc(s, w)
    IN  [v |-> v,
         CF |-> IF w = 64 THEN s[5] ELSE Bit(s, w),
         OF |-> IF Sign(x, w) = Sign(y, w) /\ Sign(v, w) # Sign(x, w) THEN 1 ELSE 0,
         SF |-> Sign(v, w),
         ZF |-> IF v = ZeroReg THEN 1 ELSE 0]

Not(v, w) == Trunc([i \in 1 .. 4 |-> Limb - 1 - v[i]], w)

\* a - b at width w: CF is the borrow
SubW(a, b, w) ==
    LET t == AddW(a, Not(b, w), 1, w) IN [t EXCEPT !.CF = 1 - t.CF]

SetFlags(m, t) == [m EXCEPT !.f = [CF |-> t.CF, OF |-> t.OF, SF |-> t.SF, ZF |-> t.ZF]]

add(m, d, sv, w) ==
    LET t == AddW(m.r[d], sv, 0, w) IN SetFlags(Put(m, d, w, t.v), t)

adc(m, d, sv, w) ==
    LET t == AddW(m.r[d], sv, m.f.CF, w) IN SetFlags(Put(m, d, w, t.v), t)

sub(m, d, sv, w) ==
    LET t == SubW(m.r[d], sv, w) IN SetFlags(Put(m, d, w, t.v), t)

cmp(m, av, sv, w) == SetFlags(m, SubW(av, sv, w))

\* bt: the tested bit goes to CF
bt(m, v, k) == [m EXCEPT !.f.CF = Bit(v, k)]

xor_(m, d, sv, w) ==
    LET v == Trunc(FromBits([j \in 0 .. 63 |-> (Bit(m.r[d], j) + Bit(sv, j)) % 2]), w)
    IN  SetFlags(Put(m, d, w, v),
                 [CF |-> 0, OF |-> 0, SF |-> Sign(v, w),
                  ZF |-> IF v = ZeroReg THEN 1 ELSE 0])

mov(m, d, sv, w) == Put(m, d, w, sv)

\* movsx / movsxd: the low sw bits of the source, sign-extended to dw bits
movsx(m, d, dw, sv, sw) ==
    Put(m, d, dw, FromBits([j \in 0 .. 63 |-> IF j < sw THEN Bit(sv, j) ELSE Sign(sv, sw)]))

\* lea: the address is computed at 64 bits, the destination keeps its low w bits;
\* no flag changes
lea(m, d, w, base, index) == Put(m, d, w, AddW(base, index, 0, 64).v)

\* shr / sar by k >= 1: CF is the last bit shifted out
ShiftRight(m, d, k, w, arithmetic) ==
    LET x == Trunc(m.r[d], w)
        fill == IF arithmetic THEN Sign(x, w) ELSE 0
        v == FromBits([j \in 0 .. 63 |-> IF j >= w THEN 0
                                         ELSE IF j + k < w THEN Bit(x, j + k) ELSE fill])
    IN  SetFlags(Put(m, d, w, v),
                 [CF |-> Bit(x, k - 1), OF |-> m.f.OF, SF |-> Sign(v, w),
                  ZF |-> IF v = ZeroReg THEN 1 ELSE 0])

shr(m, d, k, w) == ShiftRight(m, d, k, w, FALSE)
sar(m, d, k, w) == ShiftRight(m, d, k, w, TRUE)

ByteOf(v, i) == IF i % 2 = 0 THEN v[(i \div 2) + 1] % Byte ELSE v[(i \div 2) + 1] \div Byte

RECURSIVE Dot(_, _, _, _)
Dot(x, y, k, i) == IF i > k THEN 0 ELSE ByteOf(x, i) * ByteOf(y, k - i) + Dot(x, y, k, i + 1)

RECURSIVE MulCols(_, _, _, _)
MulCols(x, y, k, c) ==
    IF k = 8 THEN <<>>
    ELSE <<(c + Dot(x, y, k, 0)) % Byte>> \o MulCols(x, y, k + 1, (c + Dot(x, y, k, 0)) \div Byte)

\* imul r, r: the low w bits of the product.  Its CF and OF are not read by any
\* sequence below before another instruction sets them.
imul(m, d, sv, w) ==
    LET p == MulCols(m.r[d], sv, 0, 0)
    IN  Put(m, d, w, [i \in 1 .. 4 |-> p[2 * i - 1] + Byte * p[2 * i]])

\* the condition codes the emitter uses
Cond(m, cc) ==
    CASE cc = "o"  -> m.f.OF = 1
      [] cc = "s"  -> m.f.SF = 1
      [] cc = "ns" -> m.f.SF = 0
      [] cc = "b"  -> m.f.CF = 1
      [] cc = "ae" -> m.f.CF = 0
      [] cc = "be" -> m.f.CF = 1 \/ m.f.ZF = 1
      [] cc = "a"  -> m.f.CF = 0 /\ m.f.ZF = 0
      [] cc = "le" -> m.f.ZF = 1 \/ m.f.SF # m.f.OF

\* cmovcc: a 32-bit cmov clears the upper half of its destination either way
cmov(m, cc, d, sv, w) == IF Cond(m, cc) THEN Put(m, d, w, sv) ELSE Put(m, d, w, m.r[d])

\* setcc: one byte, 1 or 0
setcc(m, cc, d) == Put(m, d, 8, IF Cond(m, cc) THEN Imm(1) ELSE Imm(0))

(***************************************************************************)
(* The saturation emitter (backend/x64/emit_x64_saturation.cpp).  Each     *)
(* Emit function is the instruction sequence it writes, run on a machine   *)
(* whose registers are the ones the register allocator handed out.         *)
(***************************************************************************)
Sizes == {8, 16, 32, 64}

\* a register holding a size-bit value: its other bits are whatever the
\* instruction that defined it left there
ArgReg(a, size, junk) ==
    FromBits([j \in 0 .. 63 |-> IF j < size THEN Bit(a, j) ELSE junk])

\* ScratchGpr(): a register with no defined contents
ScratchReg(junk) == ArgReg(ZeroReg, 0, junk)

\* the flags the block's earlier instructions left
JunkFlags(junk) == [CF |-> junk, OF |-> junk, SF |-> junk, ZF |-> junk]

\* nothing emitted: no value defined, no use replaced, no assertion failed
NoOutput == [result |-> ZeroReg, overflow |-> ZeroReg, overflow_defined |-> FALSE,
             overflow_replaced |-> FALSE, emitted |-> FALSE, fault |-> "none"]

Defined(o) ==
    [NoOutput EXCEPT !.result = o.result, !.overflow = o.overflow,
                     !.overflow_defined = o.overflow_defined, !.emitted = TRUE]

EmitSignedSaturatedOp_NoSelect(op, size, overflow_inst, a, b, junk) ==
    LET m0 == [r |-> [result |-> ArgReg(a, size, junk), addend |-> ArgReg(b, size, junk),
                      overflow |-> ScratchReg(junk)],
               f |-> JunkFlags(junk)]
        m1 == IF size < 64
              THEN adc(bt(xor_(m0, "overflow", m0.r.overflow, 32), m0.r.result, size - 1),
                       "overflow", IntMax(size), 32)
              ELSE adc(bt(mov(m0, "overflow", IntMax(size), 64), m0.r.result, 63),
                       "overflow", Imm(0), 64)
        m2 == IF op = "Add" THEN add(m1, "result", m1.r.addend, size)
                            ELSE sub(m1, "result", m1.r.addend, size)
        m4 == IF overflow_inst THEN setcc(m2, "o", "overflow") ELSE m2
    IN  [result |-> m4.r.result, overflow |-> m4.r.overflow, overflow_defined |-> overflow_inst]

\* EmitSignedSaturatedOp<op, size>: result = args[0], addend = args[1]
EmitSignedSaturatedOp(op, size, overflow_inst, a, b, junk) ==
    LET m0 == [r |-> [result |-> ArgReg(a, size, junk), addend |-> ArgReg(b, size, junk),
                      overflow |-> ScratchReg(junk)],
               f |-> JunkFlags(junk)]
        m1 == IF size < 64
              THEN adc(bt(xor_(m0, "overflow", m0.r.overflow, 32), m0.r.result, size - 1),
                       "overflow", IntMax(size), 32)
              ELSE adc(bt(mov(m0, "overflow", IntMax(size), 64), m0.r.result, 63),
                       "overflow", Imm(0), 64)
        m2 == IF op = "Add" THEN add(m1, "result", m1.r.addend, size)
                            ELSE sub(m1, "result", m1.r.addend, size)
        m3 == IF size = 8 THEN cmov(m2, "o", "result", m2.r.overflow, 32)
                          ELSE cmov(m2, "o", "result", m2.r.overflow, size)
        m4 == IF overflow_inst THEN setcc(m3, "o", "overflow") ELSE m3
    IN  [result |-> m4.r.result, overflow |-> m4.r.overflow, overflow_defined |-> overflow_inst]

EmitUnsignedSaturatedOp_SignedCarry(op, size, overflow_inst, a, b, junk) ==
    LET m0 == [r |-> [op_result |-> ArgReg(a, size, junk), addend |-> ArgReg(b, size, junk),
                      overflow |-> ScratchReg(junk)],
               f |-> JunkFlags(junk)]
        boundary == IF op = "Add" THEN Ones(size) ELSE ZeroReg
        m1 == IF op = "Add" THEN add(m0, "op_result", m0.r.addend, size)
                            ELSE sub(m0, "op_result", m0.r.addend, size)
        m2 == mov(m1, "addend", boundary, size)
        m3 == IF size = 8 THEN cmov(m2, "ns", "addend", m2.r.op_result, 32)
                          ELSE cmov(m2, "ns", "addend", m2.r.op_result, size)
        m4 == IF overflow_inst THEN setcc(m3, "s", "overflow") ELSE m3
    IN  [result |-> m4.r.addend, overflow |-> m4.r.overflow, overflow_defined |-> overflow_inst]

\* EmitUnsignedSaturatedOp<op, size>: op_result = args[0], addend = args[1]
EmitUnsignedSaturatedOp(op, size, overflow_inst, a, b, junk) ==
    LET m0 == [r |-> [op_result |-> ArgReg(a, size, junk), addend |-> ArgReg(b, size, junk),
                      overflow |-> ScratchReg(junk)],
               f |-> JunkFlags(junk)]
        boundary == IF op = "Add" THEN Ones(size) ELSE ZeroReg
        m1 == IF op = "Add" THEN add(m0, "op_result", m0.r.addend, size)
                            ELSE sub(m0, "op_result", m0.r.addend, size)
        m2 == mov(m1, "addend", boundary, size)
        m3 == IF size = 8 THEN cmov(m2, "ae", "addend", m2.r.op_result, 32)
                          ELSE cmov(m2, "ae", "addend", m2.r.op_result, size)
        m4 == IF overflow_inst THEN setcc(m3, "b", "overflow") ELSE m3
    IN  [result |-> m4.r.addend, overflow |-> m4.r.overflow, overflow_defined |-> overflow_inst]

\* EmitX64::EmitSignedSaturatedDoublingMultiplyReturnHigh16: x = args[0], y = args[1]
EmitSignedSaturatedDoublingMultiplyReturnHigh16(overflow_inst, a, b, junk) ==
    LET m0 == [r |-> [x |-> ArgReg(a, 16, junk), y |-> ArgReg(b, 16, junk),
                      tmp |-> ScratchReg(junk)],
               f |-> JunkFlags(junk)]
        m1 == movsx(m0, "x", 32, m0.r.x, 16)
        m2 == movsx(m1, "y", 32, m1.r.y, 16)
        m3 == imul(m2, "x", m2.r.y, 32)
        m4 == lea(m3, "y", 32, m3.r.x, m3.r.x)
        m5 == mov(m4, "tmp", m4.r.x, 32)
        m6 == shr(m5, "tmp", 15, 32)
        m7 == xor_(m6, "y", m6.r.x, 32)
        m8 == mov(m7, "y", Imm(32767), 32)
        m9 == cmov(m8, "ns", "y", m8.r.tmp, 32)
        m10 == IF overflow_inst THEN setcc(m9, "s", "tmp") ELSE m9
    IN  [result |-> m10.r.y, overflow |-> m10.r.tmp, overflow_defined |-> overflow_inst]

EmitSignedSaturatedDoublingMultiplyReturnHigh32_Shr32(overflow_inst, a, b, junk) ==
    LET m0 == [r |-> [x |-> ArgReg(a, 32, junk), y |-> ArgReg(b, 32, junk),
                      tmp |-> ScratchReg(junk)],
               f |-> JunkFlags(junk)]
        m1 == movsx(m0, "x", 64, m0.r.x, 32)
        m2 == movsx(m1, "y", 64, m1.r.y, 32)
        m3 == imul(m2, "x", m2.r.y, 64)
        m4 == lea(m3, "y", 64, m3.r.x, m3.r.x)
        m5 == mov(m4, "tmp", m4.r.x, 64)
        m6 == shr(m5, "tmp", 32, 64)
        m7 == xor_(m6, "y", m6.r.x, 64)
        m8 == mov(m7, "y", Imm(2147483647), 32)
        m9 == cmov(m8, "ns", "y", m8.r.tmp, 32)
        m10 == IF overflow_inst THEN setcc(m9, "s", "tmp") ELSE m9
    IN  [result |-> m10.r.y, overflow |-> m10.r.tmp, overflow_defined |-> overflow_inst]

\* EmitX64::EmitSignedSaturatedDoublingMultiplyReturnHigh32: x = args[0], y = args[1]
EmitSignedSaturatedDoublingMultiplyReturnHigh32(overflow_inst, a, b, junk) ==
    LET m0 == [r |-> [x |-> ArgReg(a, 32, junk), y |-> ArgReg(b, 32, junk),
                      tmp |-> ScratchReg(junk)],
               f |-> JunkFlags(junk)]
        m1 == movsx(m0, "x", 64, m0.r.x, 32)
        m2 == movsx(m1, "y", 64, m1.r.y, 32)
        m3 == imul(m2, "x", m2.r.y, 64)
        m4 == lea(m3, "y", 64, m3.r.x, m3.r.x)
        m5 == mov(m4, "tmp", m4.r.x, 64)
        m6 == shr(m5, "tmp", 31, 64)
        m7 == xor_(m6, "y", m6.r.x, 64)
        m8 == mov(m7, "y", Imm(2147483647), 32)
        m9 == cmov(m8, "ns", "y", m8.r.tmp, 32)
        m10 == IF overflow_inst THEN setcc(m9, "s", "tmp") ELSE m9
    IN  [result |-> m10.r.y, overflow |-> m10.r.tmp, overflow_defined |-> overflow_inst]

\* (1u << n) - 1 and 1u << n as the emitter computes them, n < 32
LowOnes(n) == FromBits([j \in 0 .. 63 |-> IF j < n THEN 1 ELSE 0])
OneBit(n) == FromBits([j \in 0 .. 63 |-> IF j = n THEN 1 ELSE 0])

EmitSignedSaturation_NoFullWidth(N, overflow_inst, a, junk) ==
    IF ~(N >= 1 /\ N <= 32) THEN [NoOutput EXCEPT !.fault = "assert"]
    ELSE
        LET mask == LowOnes(N)
            positive_saturated_value == LowOnes(N - 1)
            negative_saturated_value == OneBit(N - 1)
            m0 == [r |-> [result |-> ScratchReg(junk), reg_a |-> ArgReg(a, 32, junk),
                          overflow |-> ScratchReg(junk)],
                   f |-> JunkFlags(junk)]
            m1 == lea(m0, "overflow", 32, m0.r.reg_a, negative_saturated_value)
            m2 == mov(m1, "result", m1.r.reg_a, 32)
            m3 == sar(m2, "result", 31, 32)
            m4 == xor_(m3, "result", positive_saturated_value, 32)
            m5 == cmp(m4, m4.r.overflow, mask, 32)
            m6 == cmov(m5, "be", "result", m5.r.reg_a, 32)
            m7 == IF overflow_inst THEN setcc(m6, "a", "overflow") ELSE m6
        IN  Defined([result |-> m7.r.result, overflow |-> m7.r.overflow,
                     overflow_defined |-> overflow_inst])

EmitSignedSaturation_SignedCompare(N, overflow_inst, a, junk) ==
    IF ~(N >= 1 /\ N <= 32) THEN [NoOutput EXCEPT !.fault = "assert"]
    ELSE IF N = 32
    THEN [NoOutput EXCEPT !.overflow_replaced = overflow_inst,
                          !.result = ArgReg(a, 32, junk)]
    ELSE
        LET mask == LowOnes(N)
            positive_saturated_value == LowOnes(N - 1)
            negative_saturated_value == OneBit(N - 1)
            m0 == [r |-> [result |-> ScratchReg(junk), reg_a |-> ArgReg(a, 32, junk),
                          overflow |-> ScratchReg(junk)],
                   f |-> JunkFlags(junk)]
            m1 == lea(m0, "overflow", 32, m0.r.reg_a, negative_saturated_value)
            m2 == mov(m1, "result", m1.r.reg_a, 32)
            m3 == sar(m2, "result", 31, 32)
            m4 == xor_(m3, "result", positive_saturated_value, 32)
            m5 == cmp(m4, m4.r.overflow, mask, 32)
            m6 == cmov(m5, "le", "result", m5.r.reg_a, 32)
            m7 == IF overflow_inst THEN setcc(m6, "a", "overflow") ELSE m6
        IN  Defined([result |-> m7.r.result, overflow |-> m7.r.overflow,
                     overflow_defined |-> overflow_inst])

\* EmitX64::EmitSignedSaturation: reg_a = args[0], N = args[1] (an immediate)
EmitSignedSaturation(N, overflow_inst, a, junk) ==
    IF ~(N >= 1 /\ N <= 32) THEN [NoOutput EXCEPT !.fault = "assert"]
    ELSE IF N = 32
    THEN [NoOutput EXCEPT !.overflow_replaced = overflow_inst,
                          !.result = ArgReg(a, 32, junk)]
    ELSE
        LET mask == LowOnes(N)
            positive_saturated_value == LowOnes(N - 1)
            negative_saturated_value == OneBit(N - 1)
            m0 == [r |-> [result |-> ScratchReg(junk), reg_a |-> ArgReg(a, 32, junk),
                          overflow |-> ScratchReg(junk)],
                   f |-> JunkFlags(junk)]
            m1 == lea(m0, "overflow", 32, m0.r.reg_a, negative_saturated_value)
            m2 == mov(m1, "result", m1.r.reg_a, 32)
            m3 == sar(m2, "result", 31, 32)
            m4 == xor_(m3, "result", positive_saturated_value, 32)
            m5 == cmp(m4, m4.r.overflow, mask, 32)
            m6 == cmov(m5, "be", "result", m5.r.reg_a, 32)
            m7 == IF overflow_inst THEN setcc(m6, "a", "overflow") ELSE m6
        IN  Defined([result |-> m7.r.result, overflow |-> m7.r.overflow,
                     overflow_defined |-> overflow_inst])

EmitUnsignedSaturation_NoSignedTest(N, overflow_inst, a, junk) ==
    IF ~(N <= 31) THEN [NoOutput EXCEPT !.fault = "assert"]
    ELSE
        LET saturated_value == LowOnes(N)
            m0 == [r |-> [result |-> ScratchReg(junk), reg_a |-> ArgReg(a, 32, junk),
                          overflow |-> ScratchReg(junk)],
                   f |-> JunkFlags(junk)]
            m1 == xor_(m0, "overflow", m0.r.overflow, 32)
            m2 == cmp(m1, m1.r.reg_a, saturated_value, 32)
            m3 == mov(m2, "result", saturated_value, 32)
            m5 == cmov(m3, "be", "result", m3.r.reg_a, 32)
            m6 == IF overflow_inst THEN setcc(m5, "a", "overflow") ELSE m5
        IN  Defined([result |-> m6.r.result, overflow |-> m6.r.overflow,
                     overflow_defined |-> overflow_inst])

\* EmitX64::EmitUnsignedSaturation: reg_a = args[0], N = args[1] (an immediate)
EmitUnsignedSaturation(N, overflow_inst, a, junk) ==
    IF ~(N <= 31) THEN [NoOutput EXCEPT !.fault = "assert"]
    ELSE
        LET saturated_value == LowOnes(N)
            m0 == [r |-> [result |-> ScratchReg(junk), reg_a |-> ArgReg(a, 32, junk),
                          overflow |-> ScratchReg(junk)],
                   f |-> JunkFlags(junk)]
            m1 == xor_(m0, "overflow", m0.r.overflow, 32)
            m2 == cmp(m1, m1.r.reg_a, saturated_value, 32)
            m3 == mov(m2, "result", saturated_value, 32)
            m4 == cmov(m3, "le", "result", m3.r.overflow, 32)
            m5 == cmov(m4, "be", "result", m4.r.reg_a, 32)
            m6 == IF overflow_inst THEN setcc(m5, "a", "overflow") ELSE m5
        IN  Defined([result |-> m6.r.result, overflow |-> m6.r.overflow,
                     overflow_defined |-> overflow_inst])

(***************************************************************************)
(* One saturation instruction of a block: the IR instruction, then what    *)
(* the code emitted for it leaves in the registers defined as its values.  *)
(***************************************************************************)
\* operand values: a top byte over a fill of the lower bits
HiBytes == {0, 1, 63, 64, 126, 127, 128, 129, 192, 254, 255}
LoFills == {"zeros", "one", "ones"}

Sample(size, hi, lo) ==
    FromBits([j \in 0 .. 63 |->
        IF j >= size THEN 0
        ELSE IF j >= size - 8 THEN (hi \div Pow2Of[j - (size - 8)]) % 2
        ELSE IF lo = "zeros" THEN 0
        ELSE IF lo = "one" THEN (IF j = 0 THEN 1 ELSE 0)
        ELSE 1])

Samples(size) == {Sample(size, hi, lo) : hi \in HiBytes, lo \in LoFills}

Inst(opcode, size, a, b, N, overflow_inst, junk) ==
    [opcode |-> opcode, size |-> size, a |-> a, b |-> b, N |-> N,
     overflow_inst |-> overflow_inst, junk |-> junk, ran |-> FALSE, out |-> NoOutput]

\* no saturation instruction in the block
NoSaturation == Inst("none", 0, ZeroReg, ZeroReg, 0, FALSE, 0)

\* a two-operand saturating instruction: an opcode at one of its sizes
SaturatedOpInst(opcodes) ==
    \E size \in Sizes, opcode \in opcodes, oi \in BOOLEAN, junk \in {0, 1} :
        \E a \in Samples(size), b \in Samples(size) :
            sat = Inst(opcode, size, a, b, 0, oi, junk)

\* EmitX64::EmitSignedSaturatedAdd8 .. EmitSignedSaturatedSub64
EmitX64_EmitSignedSaturated ==
    /\ ~sat.ran
    /\ sat.opcode \in {"SignedSaturatedAdd", "SignedSaturatedSub"}
    /\ sat' = [sat EXCEPT !.ran = TRUE, !.out = Defined(EmitSignedSaturatedOp(
                   IF sat.opcode = "SignedSaturatedAdd" THEN "Add" ELSE "Sub",
                   sat.size, sat.overflow_inst, sat.a, sat.b, sat.junk))]
    /\ UNCHANGED <<dec, emvars, monvars, xvars, yvars>>

\* EmitX64::EmitUnsignedSaturatedAdd8 .. EmitUnsignedSaturatedSub64
EmitX64_EmitUnsignedSaturated ==
    /\ ~sat.ran
    /\ sat.opcode \in {"UnsignedSaturatedAdd", "UnsignedSaturatedSub"}
    /\ sat' = [sat EXCEPT !.ran = TRUE, !.out = Defined(EmitUnsignedSaturatedOp(
                   IF sat.opcode = "UnsignedSaturatedAdd" THEN "Add" ELSE "Sub",
                   sat.size, sat.overflow_inst, sat.a, sat.b, sat.junk))]
    /\ UNCHANGED <<dec, emvars, monvars, xvars, yvars>>

\* EmitX64::EmitSignedSaturatedDoublingMultiplyReturnHigh16 and ...High32
EmitX64_EmitSignedSaturatedDoublingMultiplyReturnHigh ==
    /\ ~sat.ran
    /\ sat.opcode = "SignedSaturatedDoublingMultiplyReturnHigh"
    /\ sat' = [sat EXCEPT !.ran = TRUE, !.out = Defined(
                   IF sat.size = 16
                   THEN EmitSignedSaturatedDoublingMultiplyReturnHigh16(
                            sat.overflow_inst, sat.a, sat.b, sat.junk)
                   ELSE EmitSignedSaturatedDoublingMultiplyReturnHigh32(
                            sat.overflow_inst, sat.a, sat.b, sat.junk))]
    /\ UNCHANGED <<dec, emvars, monvars, xvars, yvars>>

\* the largest immediate N tried: one past the last N an assertion admits
MaxN == 33

\* 32-bit values around 2^k and -2^k
Near(k) ==
    {OneBit(k), LowOnes(k),
     FromBits([j \in 0 .. 63 |-> IF j = k \/ j = 0 THEN 1 ELSE 0]),
     FromBits([j \in 0 .. 63 |-> IF j >= k /\ j < 32 THEN 1 ELSE 0]),
     FromBits([j \in 0 .. 63 |-> IF j # k /\ j < 32 THEN 1 ELSE 0]),
     FromBits([j \in 0 .. 63 |-> IF (j >= k \/ j = 0) /\ j < 32 THEN 1 ELSE 0])}

\* the operands tried with the immediate N
SaturationSamples(N) ==
    Samples(32) \cup UNION {Near(k) : k \in {N - 1, N} \cap (0 .. 31)}

\* EmitX64::EmitSignedSaturation
EmitX64_EmitSignedSaturation ==
    /\ ~sat.ran
    /\ sat.opcode = "SignedSaturation"
    /\ sat' = [sat EXCEPT !.ran = TRUE, !.out = EmitSignedSaturation(
                   sat.N, sat.overflow_inst, sat.a, sat.junk)]
    /\ UNCHANGED <<dec, emvars, monvars, xvars, yvars>>

\* EmitX64::EmitUnsignedSaturation
EmitX64_EmitUnsignedSaturation ==
    /\ ~sat.ran
    /\ sat.opcode = "UnsignedSaturation"
    /\ sat' = [sat EXCEPT !.ran = TRUE, !.out = EmitUnsignedSaturation(
                   sat.N, sat.overflow_inst, sat.a, sat.junk)]
    /\ UNCHANGED <<dec, emvars, monvars, xvars, yvars>>

(***************************************************************************)
(* Decoder::Matcher (frontend/decoder/matcher.h) and the search of a       *)
(* decode table for an instruction word.                                   *)
(***************************************************************************)
\* width of an instruction word (opcode_type), in bits
WordBits == 3
\* longest decode table
MaxMatchers == 3

OpcodeWords == 0 .. (Pow2(WordBits) - 1)

\* Matcher(name, mask, expected, func): the handler is known by the matcher's name
Matcher(name, mask, expected) == [name |-> name, mask |-> mask, expected |-> expected]

Matches_ExpectedOnly(matcher, instruction) == instruction = matcher.expected

\* Matcher::Matches
Matches(matcher, instruction) == BitAnd(instruction, matcher.mask) = matcher.expected

call_Unchecked(matcher, instruction) == [fault |-> "none", invoked |-> matcher.name]

\* Matcher::call: ASSERT(Matches(instruction)), then the handler
call(matcher, instruction) ==
    IF ~Matches(matcher, instruction) THEN [fault |-> "assert", invoked |-> "none"]
    ELSE [fault |-> "none", invoked |-> matcher.name]

\* the search of the table in declaration order: the position of the first matcher
\* that matches, 0 if none does
RECURSIVE FirstMatch(_, _, _)
FirstMatch(table, instruction, i) ==
    IF i > Len(table) THEN 0
    ELSE IF Matches(table[i], instruction) THEN i
    ELSE FirstMatch(table, instruction, i + 1)

\* decoding one word: the first matching handler is invoked through call; with no
\* match the undefined-instruction handler is
Decode(table, instruction) ==
    LET i == FirstMatch(table, instruction, 1)
    IN  IF i = 0 THEN [returned |-> 0, fault |-> "none", invoked |-> "undefined_instruction"]
        ELSE [returned |-> i] @@ call(table[i], instruction)

NoDecode == [table |-> <<>>, word |-> 0, matcher |-> 0, ran |-> "none", matched |-> FALSE,
             returned |-> 0, fault |-> "none", invoked |-> "none"]

\* Matcher::Matches of one matcher on one word
Matcher_Matches ==
    /\ dec.ran = "none" /\ dec.matcher # 0
    /\ dec' = [dec EXCEPT !.ran = "Matches",
                          !.matched = Matches(dec.table[dec.matcher], dec.word)]
    /\ UNCHANGED <<sat, emvars, monvars, xvars, yvars>>

\* Matcher::call of any matcher of the table on the word, by any caller
Matcher_call ==
    /\ dec.ran = "none"
    /\ \E i \in DOMAIN dec.table :
           LET c == call(dec.table[i], dec.word)
           IN  dec' = [dec EXCEPT !.ran = "call", !.matcher = i,
                                  !.fault = c.fault, !.invoked = c.invoked]
    /\ UNCHANGED <<sat, emvars, monvars, xvars, yvars>>

\* the decoder on the word
Decoder_Decode ==
    /\ dec.ran = "none"
    /\ LET d == Decode(dec.table, dec.word)
       IN  dec' = [dec EXCEPT !.ran = "Decode", !.returned = d.returned,
                              !.fault = d.fault, !.invoked = d.invoked]
    /\ UNCHANGED <<sat, emvars, monvars, xvars, yvars>>

\* the matchers a decode table is written with: a bit of the word is fixed to 0 or
\* to 1, or left open
TableMatchers(name) ==
    UNION {{Matcher(name, mask, expected) :
                expected \in {e \in OpcodeWords : BitAnd(e, mask) = e}} : mask \in OpcodeWords}

\* the decode tables of n matchers, each named by its position
RECURSIVE Tables(_)
Tables(n) ==
    IF n = 0 THEN {<<>>}
    ELSE {Append(t, m) : t \in Tables(n - 1), m \in TableMatchers(ToString(n))}

(***************************************************************************)
(* The A32 coprocessor instructions: EmitA32CoprocInternalOperation etc.   *)
(***************************************************************************)
\* config.coprocessors: sixteen slots, each a coprocessor or null
CoprocSlots == 0 .. 15

CoprocOpcodes ==
    {"CoprocInternalOperation", "CoprocSendOneWord", "CoprocSendTwoWords",
     "CoprocGetOneWord", "CoprocGetTwoWords", "CoprocLoadWords", "CoprocStoreWords"}

\* what the coprocessor's Compile* callback of an opcode can return: an
\* std::optional<Callback> (index 0 stands for the empty one), or a variant of
\* nothing, a Callback and one or two pointers
CompileResults(opcode) ==
    IF opcode \in {"CoprocInternalOperation", "CoprocLoadWords", "CoprocStoreWords"}
    THEN {[index |-> 0], [index |-> 1, user_arg |-> TRUE], [index |-> 1, user_arg |-> FALSE]}
    ELSE {[index |-> 0], [index |-> 1, user_arg |-> TRUE], [index |-> 1, user_arg |-> FALSE],
          [index |-> 2]}

\* EmitCoprocessorException: ASSERT_FALSE("Should raise coproc exception here")
EmitCoprocessorException == [status |-> "assert", code |-> <<>>]

\* CallCoprocCallback: HostCall with the arguments, the Jit and the user argument
\* in the parameter registers, QuickCallFunction
CallCoprocCallback(callback, defines, args) ==
    [status |-> "emitted",
     code |-> <<[op |-> "QuickCallFunction", user_arg |-> callback.user_arg,
                 defines |-> defines, args |-> args]>>]

\* the direct stores and loads for a pointer action
CoprocPointerCode(opcode) ==
    [status |-> "emitted",
     code |-> CASE opcode = "CoprocSendOneWord" -> <<[op |-> "STR", ptr |-> 0, arg |-> 1]>>
                [] opcode = "CoprocSendTwoWords" ->
                       <<[op |-> "STR", ptr |-> 0, arg |-> 1], [op |-> "STR", ptr |-> 1, arg |-> 2]>>
                [] opcode = "CoprocGetOneWord" -> <<[op |-> "LDR", ptr |-> 0]>>
                [] opcode = "CoprocGetTwoWords" ->
                       <<[op |-> "LDR", ptr |-> 1], [op |-> "LDR", ptr |-> 0],
                         [op |-> "ORR_LSL32"]>>]

\* A32EmitA64::EmitA32Coproc<opcode>: a null slot and an empty action go to
\* EmitCoprocessorException, a Callback to CallCoprocCallback with the
\* instruction's arguments, a pointer to the direct access
EmitA32Coproc(opcode, coproc, action) ==
    IF ~coproc THEN EmitCoprocessorException
    ELSE IF action.index = 0 THEN EmitCoprocessorException
    ELSE IF action.index = 1
    THEN CASE opcode = "CoprocInternalOperation" -> CallCoprocCallback(action, FALSE, <<>>)
           [] opcode = "CoprocSendOneWord" -> CallCoprocCallback(action, FALSE, <<1>>)
           [] opcode = "CoprocSendTwoWords" -> CallCoprocCallback(action, FALSE, <<1, 2>>)
           [] opcode = "CoprocGetOneWord" -> CallCoprocCallback(action, TRUE, <<>>)
           [] opcode = "CoprocGetTwoWords" -> CallCoprocCallback(action, TRUE, <<>>)
           [] opcode = "CoprocLoadWords" -> CallCoprocCallback(action, FALSE, <<1>>)
           [] opcode = "CoprocStoreWords" -> CallCoprocCallback(action, FALSE, <<1>>)
    ELSE CoprocPointerCode(opcode)

\* no coprocessor configured, no coprocessor instruction emitted
NoCoproc ==
    [coprocessors |-> [n \in CoprocSlots |-> FALSE], status |-> "idle", code |-> <<>>,
     opcode |-> "none", coproc_num |-> 0, action |-> [index |-> 0]]

\* the configurations of the slots
CoprocConfigs == {[n \in CoprocSlots |-> n \in present] : present \in {{}, {0}, {15}, {0, 15}}}

\* Emit reaches a coprocessor instruction of a block: the slot is looked up, its
\* Compile* callback asked, the code emitted (or the translator aborted)
A32EmitA64_EmitA32Coproc ==
    /\ cop.status # "assert"
    /\ \E opcode \in CoprocOpcodes, coproc_num \in CoprocSlots :
          \E action \in CompileResults(opcode) :
             LET coproc == cop.coprocessors[coproc_num]
                 out == EmitA32Coproc(opcode, coproc, action)
             IN  \* a null slot has no Compile* callback to return anything
                 /\ coproc \/ action.index = 0
                 /\ cop' = [cop EXCEPT !.status = out.status, !.code = out.code,
                                       !.opcode = opcode, !.coproc_num = coproc_num,
                                       !.action = action]
    /\ UNCHANGED <<blk, run, gst, smp, monvars, emvars, pvars, yvars>>

(***************************************************************************)
(* EmitA32BXWritePC and EmitA32SetGEFlagsCompressed: their AArch64         *)
(* instructions on W registers (32 bits, held in the two low limbs of a    *)
(* register), for an immediate and for a register argument                 *)
(***************************************************************************)
\* the 32-bit word with the given upper and lower halves
Word(hi, lo) == <<lo, hi, 0, 0>>

\* AND / ANDI2R Wd, Wn, Wm
AND(a, b) == Trunc(FromBits([j \in 0 .. 63 |-> Bit(a, j) * Bit(b, j)]), 32)
\* ORR Wd, Wn, Wm, LSL #shift
ORR(a, b, shift) ==
    Trunc(FromBits([j \in 0 .. 63 |->
                       IF Bit(a, j) = 1 \/ (j >= shift /\ j < 32 /\ Bit(b, j - shift) = 1)
                       THEN 1 ELSE 0]), 32)
\* ADD Wd, Wn, Wm and SUBI2R Wd, Wn, imm
ADD(a, b) == AddW(a, b, 0, 32).v
SUBI2R(a, imm) == SubW(a, Imm(imm), 32).v
\* LSL Wd, Wn, #shift
LSL(a, shift) ==
    Trunc(FromBits([j \in 0 .. 63 |-> IF j >= shift /\ j < 32 THEN Bit(a, j - shift) ELSE 0]), 32)
\* UBFX Wd, Wn, #lsb, #width
UBFX(a, lsb, width) ==
    FromBits([j \in 0 .. 63 |-> IF j < width THEN Bit(a, j + lsb) ELSE 0])
\* MUL Wd, Wn, Wm: the low 32 bits of the product
MUL(a, b) ==
    LET p == MulCols(Trunc(a, 32), Trunc(b, 32), 0, 0)
    IN  Trunc([i \in 1 .. 4 |-> p[2 * i - 1] + Byte * p[2 * i]], 32)

\* the upper half of Location().SetSingleStepping(false).UniqueHash(), for a
\* location whose upper half is held as a word
UpperOfHash(l) == IF l.single_step THEN ORR(l.upper, Imm(SingleStepBit), 0) ELSE l.upper

\* upper_without_t
UpperWithoutT(l) == AND(UpperOfHash([l EXCEPT !.single_step = FALSE]), Word(65535, 65534))

\* EmitA32BXWritePC, immediate argument: the mask and the upper half are
\* computed by the emitter and stored with MOVI2R / STR
BXWritePC_Immediate(j, l, new_pc) ==
    LET mask == IF Bit(new_pc, 0) = 1 THEN Word(65535, 65534) ELSE Word(65535, 65532)
        new_upper == ORR(UpperWithoutT(l), IF Bit(new_pc, 0) = 1 THEN Imm(1) ELSE Imm(0), 0)
    IN  [j EXCEPT !.pc = AND(new_pc, mask), !.upper_location_descriptor = new_upper]

\* a register lowering that adds the T bit to the block's whole upper half
BXWritePC_Register_KeepingT(j, l, arg) ==
    LET mask1 == AND(arg, Imm(1))
        new_upper == ADD(UpperOfHash([l EXCEPT !.single_step = FALSE]), mask1)
        mask2 == SUBI2R(LSL(mask1, 1), 4)
    IN  [j EXCEPT !.upper_location_descriptor = new_upper, !.pc = AND(arg, mask2)]

\* EmitA32BXWritePC, register argument: ANDI2R, MOVI2R, ADD, STR of the upper
\* half, LSL, SUBI2R, AND, STR of the PC
BXWritePC_Register(j, l, arg) ==
    LET mask1 == AND(arg, Imm(1))
        new_upper == ADD(UpperWithoutT(l), mask1)
        mask2 == SUBI2R(LSL(mask1, 1), 4)
    IN  [j EXCEPT !.upper_location_descriptor = new_upper, !.pc = AND(arg, mask2)]

\* EmitA32SetGEFlagsCompressed, immediate argument
SetGEFlagsCompressed_Immediate(j, imm) ==
    LET ge3 == IF Bit(imm, 19) = 1 THEN Word(65280, 0) ELSE ZeroReg
        ge2 == IF Bit(imm, 18) = 1 THEN Word(255, 0) ELSE ZeroReg
        ge1 == IF Bit(imm, 17) = 1 THEN Word(0, 65280) ELSE ZeroReg
        ge0 == IF Bit(imm, 16) = 1 THEN Word(0, 255) ELSE ZeroReg
    IN  [j EXCEPT !.cpsr_ge = ORR(ORR(ORR(ge3, ge2, 0), ge1, 0), ge0, 0)]

\* EmitA32SetGEFlagsCompressed, register argument: UBFX, MOVI2R 0x00204081, MUL,
\* ANDI2R 0x01010101, ORR a, a, a LSL #1, STR
SetGEFlagsCompressed_Register(j, arg) ==
    LET a1 == UBFX(arg, 16, 4)
        a2 == MUL(a1, Word(32, 16513))
        a3 == AND(a2, Word(257, 257))
        a4 == ORR(a3, a3, 1)
    IN  [j EXCEPT !.cpsr_ge = a4]

\* the fields of A32JitState the two instructions store to
NewGuestState == [pc |-> ZeroReg, upper_location_descriptor |-> ZeroReg, cpsr_ge |-> ZeroReg]

NoGuestWrite ==
    [opcode |-> "none", immediate |-> FALSE, arg |-> ZeroReg,
     location |-> [upper |-> ZeroReg, single_step |-> FALSE], js |-> NewGuestState,
     ran |-> FALSE]

\* the arguments: every value of the bits the instructions look at (0 and 1,
\* 16 to 19), with the other bits clear, set and mixed
GuestWriteArgs(ges) ==
    {ORR(ORR(Word(hi * 16, lo * 4), Word(ge, 0), 0), Imm(low), 0) :
        hi \in {0, 4095, 2730}, lo \in {0, 16383, 4660}, ge \in ges, low \in 0 .. 3}

\* the upper halves of the locations of the emitting block: T, E and the FPSCR
\* mode bits above the single-stepping bit
GuestWriteLocations ==
    [upper : {ORR(Word(hi, lo * 8), Imm(te), 0) : hi \in {0, 2039, 65535}, lo \in {0, 8191},
                                                    te \in 0 .. 3},
     single_step : BOOLEAN]

\* the block's BXWritePC runs
A32EmitA64_EmitA32BXWritePC ==
    /\ gst.opcode = "BXWritePC"
    /\ ~gst.ran
    /\ gst' = [gst EXCEPT !.ran = TRUE,
                          !.js = IF gst.immediate
                                 THEN BXWritePC_Immediate(@, gst.location, gst.arg)
                                 ELSE BXWritePC_Register(@, gst.location, gst.arg)]
    /\ UNCHANGED <<blk, run, cop, smp, monvars, emvars, pvars, yvars>>

\* the block's SetGEFlagsCompressed runs
A32EmitA64_EmitA32SetGEFlagsCompressed ==
    /\ gst.opcode = "SetGEFlagsCompressed"
    /\ ~gst.ran
    /\ gst' = [gst EXCEPT !.ran = TRUE,
                          !.js = IF gst.immediate
                                 THEN SetGEFlagsCompressed_Immediate(@, gst.arg)
                                 ELSE SetGEFlagsCompressed_Register(@, gst.arg)]
    /\ UNCHANGED <<blk, run, cop, smp, monvars, emvars, pvars, yvars>>

(***************************************************************************)
(* The flag instructions: EmitA32SetCpsr, EmitA32SetCpsrNZCV(Raw/Q),       *)
(* EmitA32Get/Set{N,Z,C,V}Flag and EmitA32OrQFlag, on cpsr_nzcv and cpsr_q *)
(***************************************************************************)
\* flag_bit of EmitA32Set{N,Z,C,V}Flag
FlagBit == [N |-> 31, Z |-> 30, C |-> 29, V |-> 28]
FlagNames == {"N", "Z", "C", "V"}
\* flag_mask = 1u << flag_bit, and ~flag_mask
FlagMask(flag_bit) == Word(Pow2(flag_bit - 16), 0)
NotFlagMask(flag_bit) == Word(65535 - Pow2(flag_bit - 16), 65535)

\* BFI Wd, Wn, #lsb, #width: the low width bits of Wn replace those of Wd from lsb
BFI(d, n, lsb, width) ==
    Trunc(FromBits([j \in 0 .. 63 |->
                       IF j >= lsb /\ j < lsb + width THEN Bit(n, j - lsb) ELSE Bit(d, j)]), 32)

\* A32JitState after construction, the two fields of the flags
NewFlagState == [cpsr_nzcv |-> ZeroReg, cpsr_q |-> ZeroReg]

\* EmitA32Get{N,Z,C,V}Flag: LDR cpsr_nzcv; UBFX result, result, flag_bit, 1
GetFlag(j, flag_bit) == UBFX(j.cpsr_nzcv, flag_bit, 1)

\* a SetFlag for a register argument that stores the argument at the bit alone
SetFlag_Overwriting(j, flag_bit, immediate, arg) ==
    [j EXCEPT !.cpsr_nzcv = IF immediate
                            THEN IF arg # ZeroReg THEN ORR(@, FlagMask(flag_bit), 0)
                                 ELSE AND(@, NotFlagMask(flag_bit))
                            ELSE LSL(arg, flag_bit)]

\* EmitA32Set{N,Z,C,V}Flag: LDR cpsr_nzcv; ORRI2R flag_mask or ANDI2R ~flag_mask
\* for an immediate, BFI nzcv, to_store, flag_bit, 1 for a register; STR
SetFlag(j, flag_bit, immediate, arg) ==
    [j EXCEPT !.cpsr_nzcv = IF immediate
                            THEN IF arg # ZeroReg THEN ORR(@, FlagMask(flag_bit), 0)
                                 ELSE AND(@, NotFlagMask(flag_bit))
                            ELSE BFI(@, arg, flag_bit, 1)]

\* a SetCpsrNZCVRaw that stores its argument as it is
SetCpsrNZCVRaw_Unmasked(j, arg) == [j EXCEPT !.cpsr_nzcv = Trunc(arg, 32)]

\* EmitA32SetCpsrNZCVRaw (and EmitA32SetCpsrNZCV, which calls it):
\* ANDI2R a, a, 0xF0000000; STR cpsr_nzcv
SetCpsrNZCVRaw(j, arg) == [j EXCEPT !.cpsr_nzcv = AND(arg, Word(61440, 0))]

\* EmitA32SetCpsrNZCVQ: MOVI2R of imm & 0xF0000000 and of (imm & 0x08000000) != 0
\* for an immediate; UBFX q, a, 27, 1 and ANDI2R a, a, 0xF0000000 for a register
SetCpsrNZCVQ(j, immediate, arg) ==
    IF immediate
    THEN [cpsr_nzcv |-> AND(arg, Word(61440, 0)),
          cpsr_q |-> IF AND(arg, Word(2048, 0)) # ZeroReg THEN Imm(1) ELSE Imm(0)]
    ELSE [cpsr_nzcv |-> AND(arg, Word(61440, 0)),
          cpsr_q |-> UBFX(arg, 27, 1)]

\* EmitA32SetCpsr: SetCpsrImpl calls A32JitState::SetCpsr(value), which splits the
\* word into the fields; (with always_little_endian bit 9 is masked off first)
SetCpsr(j, arg) ==
    [cpsr_nzcv |-> AND(arg, Word(61440, 0)), cpsr_q |-> UBFX(arg, 27, 1)]

\* an OrQFlag that stores its argument
OrQFlag_Storing(j, immediate, arg) == [j EXCEPT !.cpsr_q = Trunc(arg, 32)]

\* EmitA32OrQFlag: an immediate true is stored, an immediate false emits nothing;
\* a register is ORed into cpsr_q
OrQFlag(j, immediate, arg) ==
    IF immediate
    THEN IF arg # ZeroReg THEN [j EXCEPT !.cpsr_q = Trunc(arg, 32)] ELSE j
    ELSE [j EXCEPT !.cpsr_q = ORR(@, arg, 0)]

\* no flag instruction has run
NoFlags ==
    [opcode |-> "none", flag |-> "none", immediate |-> FALSE, arg |-> ZeroReg,
     js |-> NewFlagState, result |-> ZeroReg]

\* the U1 arguments, and the words given to the SetCpsr instructions: values of
\* bits 28 to 31 and of bit 27 over low bits clear and mixed
U1Args == {Imm(0), Imm(1)}
CpsrArgs ==
    {ORR(Word(nzcv * 4096 + q * 2048, 0), low, 0) :
        nzcv \in {0, 1, 2, 4, 8, 10, 15}, q \in {0, 1}, low \in {Word(0, 0), Word(1365, 65535)}}

\* the block's Set{N,Z,C,V}Flag runs
A32EmitA64_EmitA32SetFlag ==
    /\ \E f \in FlagNames, immediate \in BOOLEAN, arg \in U1Args :
          flg' = [opcode |-> "SetFlag", flag |-> f, immediate |-> immediate, arg |-> arg,
                  js |-> SetFlag(flg.js, FlagBit[f], immediate, arg),
                  result |-> ZeroReg]
    /\ UNCHANGED <<monvars, emvars, pvars, xvars, rng, svc, mpv>>

\* the block's Get{N,Z,C,V}Flag runs
A32EmitA64_EmitA32GetFlag ==
    /\ \E f \in FlagNames :
          flg' = [opcode |-> "GetFlag", flag |-> f, immediate |-> FALSE, arg |-> ZeroReg,
                  js |-> flg.js, result |-> GetFlag(flg.js, FlagBit[f])]
    /\ UNCHANGED <<monvars, emvars, pvars, xvars, rng, svc, mpv>>

\* the block's SetCpsrNZCVRaw or SetCpsrNZCV runs
A32EmitA64_EmitA32SetCpsrNZCVRaw ==
    /\ \E op \in {"SetCpsrNZCVRaw", "SetCpsrNZCV"}, arg \in CpsrArgs :
          flg' = [opcode |-> op, flag |-> "none", immediate |-> FALSE, arg |-> arg,
                  js |-> SetCpsrNZCVRaw(flg.js, arg), result |-> ZeroReg]
    /\ UNCHANGED <<monvars, emvars, pvars, xvars, rng, svc, mpv>>

\* the block's SetCpsrNZCVQ runs
A32EmitA64_EmitA32SetCpsrNZCVQ ==
    /\ \E immediate \in BOOLEAN, arg \in CpsrArgs :
          flg' = [opcode |-> "SetCpsrNZCVQ", flag |-> "none", immediate |-> immediate,
                  arg |-> arg,
                  js |-> SetCpsrNZCVQ(flg.js, immediate, arg), result |-> ZeroReg]
    /\ UNCHANGED <<monvars, emvars, pvars, xvars, rng, svc, mpv>>

\* the block's SetCpsr runs
A32EmitA64_EmitA32SetCpsr ==
    /\ \E arg \in CpsrArgs :
          flg' = [opcode |-> "SetCpsr", flag |-> "none", immediate |-> FALSE, arg |-> arg,
                  js |-> SetCpsr(flg.js, arg), result |-> ZeroReg]
    /\ UNCHANGED <<monvars, emvars, pvars, xvars, rng, svc, mpv>>

\* the block's OrQFlag runs
A32EmitA64_EmitA32OrQFlag ==
    /\ \E immediate \in BOOLEAN, arg \in U1Args :
          flg' = [opcode |-> "OrQFlag", flag |-> "none", immediate |-> immediate, arg |-> arg,
                  js |-> OrQFlag(flg.js, immediate, arg), result |-> ZeroReg]
    /\ UNCHANGED <<monvars, emvars, pvars, xvars, rng, svc, mpv>>

\* the flag instructions of a block, in any order
FlagsNext ==
    \/ A32EmitA64_EmitA32SetFlag
    \/ A32EmitA64_EmitA32GetFlag
    \/ A32EmitA64_EmitA32SetCpsrNZCVRaw
    \/ A32EmitA64_EmitA32SetCpsrNZCVQ
    \/ A32EmitA64_EmitA32SetCpsr
    \/ A32EmitA64_EmitA32OrQFlag

(***************************************************************************)
(* Guest LDREX / STREX / STR / CLREX on two processors: each processor is  *)
(* a Jit with its own A32JitState (exclusive_state, exclusive_address);    *)
(* the memory behind the embedder's callbacks is shared                    *)
(***************************************************************************)
\* the guest addresses and the words stored
GuestAddrs == {0, 4}
GuestWords == {0, 1}

RECURSIVE BitXor(_, _)
BitXor(a, b) ==
    IF a = 0 /\ b = 0 THEN 0
    ELSE ((a + b) % 2) + 2 * BitXor(a \div 2, b \div 2)

NewProcessor ==
    [exclusive_state |-> 0, exclusive_address |-> 0, R0 |-> 0, R2 |-> 0,
     \* the address of the LDREX that was this processor's last instruction, if
     \* it was one, and whether another processor has written there since
     marked |-> <<>>, intervening |-> FALSE]

NoSmp ==
    [mem |-> [a \in GuestAddrs |-> 0],
     proc |-> [p \in Procs |-> NewProcessor],
     last |-> [kind |-> "none"]]

\* the embedder's MemoryWrite32 for processor p: the word goes to memory; the
\* other processors that hold an LDREX on the address have been written over
MemoryWrite32(s, p, address, value) ==
    [s EXCEPT !.mem[address] = value,
              !.proc = [q \in Procs |->
                           IF q # p /\ s.proc[q].marked = <<address>>
                           THEN [s.proc[q] EXCEPT !.intervening = TRUE]
                           ELSE s.proc[q]]]

\* EmitA32SetExclusive: exclusive_state := 1, exclusive_address := address
EmitA32SetExclusive(j, address) ==
    [j EXCEPT !.exclusive_state = 1, !.exclusive_address = address]

\* EmitA32ClearExclusive: exclusive_state := 0
EmitA32ClearExclusive(j) == [j EXCEPT !.exclusive_state = 0]

\* an ExclusiveWrite without the STR of WZR to exclusive_state
ExclusiveWrite_KeepingState(s, p, address, value) ==
    LET j == s.proc[p] IN
    IF j.exclusive_state = 0
    THEN [s |-> s, passed |-> 1]
    ELSE IF BitAnd(BitXor(address, j.exclusive_address), RESERVATION_GRANULE_MASK) # 0
    THEN [s |-> s, passed |-> 1]
    ELSE [s |-> MemoryWrite32(s, p, address, value), passed |-> 0]

\* ExclusiveWrite: passed is 1 unless exclusive_state is set and the address is
\* in the granule of exclusive_address; then the state is cleared, the callback
\* writes and passed is 0
ExclusiveWrite(s, p, address, value) ==
    LET j == s.proc[p] IN
    IF j.exclusive_state = 0
    THEN [s |-> s, passed |-> 1]
    ELSE IF BitAnd(BitXor(address, j.exclusive_address), RESERVATION_GRANULE_MASK) # 0
    THEN [s |-> s, passed |-> 1]
    ELSE [s |-> MemoryWrite32([s EXCEPT !.proc[p].exclusive_state = 0], p, address, value),
          passed |-> 0]

\* LDREX R0, [R1]: SetExclusive, then the read
Guest_LDREX ==
    \E p \in Procs, address \in GuestAddrs :
       /\ smp' = [smp EXCEPT !.proc[p] = [EmitA32SetExclusive(@, address) EXCEPT
                                             !.R0 = smp.mem[address],
                                             !.marked = <<address>>,
                                             !.intervening = FALSE],
                             !.last = [kind |-> "LDREX", p |-> p, address |-> address]]
       /\ UNCHANGED <<blk, run, cop, gst, monvars, emvars, pvars, yvars>>

\* STREX R2, R3, [R1]: ExclusiveWriteMemory32, its result to R2
Guest_STREX ==
    \E p \in Procs, address \in GuestAddrs, value \in GuestWords :
       LET r == ExclusiveWrite(smp, p, address, value) IN
       /\ smp' = [r.s EXCEPT !.proc[p].R2 = r.passed,
                             !.proc[p].marked = <<>>,
                             !.proc[p].intervening = FALSE,
                             !.last = [kind |-> "STREX", p |-> p, address |-> address,
                                       value |-> value,
                                       after_ldrex |-> smp.proc[p].marked = <<address>>,
                                       intervening |-> smp.proc[p].intervening,
                                       before |-> smp.mem[address]]]
       /\ UNCHANGED <<blk, run, cop, gst, monvars, emvars, pvars, yvars>>

\* STR R3, [R1]: WriteMemory32
Guest_STR ==
    \E p \in Procs, address \in GuestAddrs, value \in GuestWords :
       /\ smp' = [MemoryWrite32(smp, p, address, value) EXCEPT
                     !.proc[p].marked = <<>>,
                     !.proc[p].intervening = FALSE,
                     !.last = [kind |-> "STR", p |-> p, address |-> address]]
       /\ UNCHANGED <<blk, run, cop, gst, monvars, emvars, pvars, yvars>>

\* CLREX: ClearExclusive
Guest_CLREX ==
    \E p \in Procs :
       /\ smp.proc[p].exclusive_state = 1
       /\ smp' = [smp EXCEPT !.proc[p] = [EmitA32ClearExclusive(@) EXCEPT
                                             !.marked = <<>>, !.intervening = FALSE],
                             !.last = [kind |-> "CLREX", p |-> p]]
       /\ UNCHANGED <<blk, run, cop, gst, monvars, emvars, pvars, yvars>>

ExclusiveNext ==
    \/ Guest_LDREX
    \/ Guest_STREX
    \/ Guest_STR
    \/ Guest_CLREX

(***************************************************************************)
(* The guest ranges of the blocks                                          *)
(* (A32EmitA64::Emit, a32_emit_a64.cpp 153-162; InvalidateCacheRanges)     *)
(***************************************************************************)
\* most instructions of a block
MaxInstructions == 3

\* u32 order
LessEq(a, b) == a[2] < b[2] \/ (a[2] = b[2] /\ a[1] <= b[1])
\* boost::icl::discrete_interval<u32>::closed(lo, hi): empty when hi < lo
closed(lo, hi) == [lo |-> lo, hi |-> hi]
IsEmpty(i) == ~LessEq(i.lo, i.hi)
Contains(i, x) == LessEq(i.lo, x) /\ LessEq(x, i.hi)
Intersects(i, k) ==
    /\ ~IsEmpty(i) /\ ~IsEmpty(k)
    /\ LessEq(i.lo, k.hi) /\ LessEq(k.lo, i.hi)

\* block.EndLocation().PC(): the PC after count instructions of size bytes, in u32
EndLocationPC(pc, count, size) == ADD(pc, Imm(count * size))
\* the range of Emit
BlockRange(pc, end_pc) == closed(pc, SUBI2R(end_pc, 1))
\* block_ranges.AddRange(range, descriptor): an interval map keeps no empty interval
AddRange(range, descriptor) ==
    IF IsEmpty(range) THEN {} ELSE {[range |-> range, location |-> descriptor]}
\* block_ranges.InvalidateRanges(ranges): the descriptors of the entries that overlap
BlockRangeInformation_InvalidateRanges(entries, range) ==
    {b.location : b \in {x \in entries : Intersects(x.range, range)}}
\* the guest addresses of the instructions translated into a block
TranslatedAddresses(pc, count, size) == {ADD(pc, Imm(k)) : k \in 0 .. (count * size - 1)}

NoRange == [op |-> "none", pc |-> ZeroReg, count |-> 0, size |-> 0, end_pc |-> ZeroReg,
            entries |-> {}, ranges |-> closed(ZeroReg, ZeroReg), erase |-> {}]

\* start PCs of blocks: low, in the middle, and under the top of the address space
BlockPCs == {Word(0, 0), Word(0, 4), Word(32768, 0),
             Word(65535, 65528), Word(65535, 65532), Word(65535, 65534)}
\* the ranges invalidated
InvalidatedRanges ==
    {closed(Word(0, 0), Word(0, 0)), closed(Word(0, 0), Word(0, 3)),
     closed(Word(0, 4), Word(0, 7)), closed(Word(0, 6), Word(0, 9)),
     closed(Word(32768, 2), Word(32768, 2)),
     closed(Word(65535, 65532), Word(65535, 65535)),
     closed(Word(65535, 65535), Word(65535, 65535)),
     closed(Word(0, 16), Word(65535, 65519))}

\* Emit, from the end location on: the range is added under the descriptor
A32EmitA64_Emit_AddRange ==
    /\ \E pc \in BlockPCs, count \in 1 .. MaxInstructions, size \in {2, 4} :
          /\ pc[1] % size = 0
          /\ LET end_pc == EndLocationPC(pc, count, size) IN
                rng' = [op |-> "Emit", pc |-> pc, count |-> count, size |-> size,
                        end_pc |-> end_pc,
                        entries |-> AddRange(BlockRange(pc, end_pc), pc),
                        ranges |-> closed(ZeroReg, ZeroReg), erase |-> {}]
    /\ UNCHANGED <<monvars, emvars, pvars, xvars, flg, svc, mpv>>

\* InvalidateCacheRanges, as far as block_ranges.InvalidateRanges
A32EmitA64_InvalidateCacheRanges_Ranges ==
    /\ rng.op = "Emit"
    /\ \E r \in InvalidatedRanges :
          rng' = [rng EXCEPT !.op = "InvalidateCacheRanges", !.ranges = r,
                             !.erase = BlockRangeInformation_InvalidateRanges(rng.entries, r)]
    /\ UNCHANGED <<monvars, emvars, pvars, xvars, flg, svc, mpv>>

RangesNext == A32EmitA64_Emit_AddRange \/ A32EmitA64_InvalidateCacheRanges_Ranges


(***************************************************************************)
(* A32 CallSupervisor (a32_emit_a64.cpp 744-760)                           *)
(***************************************************************************)
NoSvc ==
    [at |-> "none", cycles_to_run |-> ZeroReg, X26 |-> ZeroReg, imm |-> 0,
     ABI_PARAM2 |-> ZeroReg, ABI_RETURN |-> ZeroReg, fp |-> "guest", calls |-> <<>>,
     entry |-> [cycles_to_run |-> ZeroReg, X26 |-> ZeroReg]]

\* cycles_to_run and the cycles remaining (X26) when the instruction is reached;
\* the remaining cycles are negative after a block that ran over
CyclesToRun == {Imm(1), Imm(10), Imm(100000)}
CyclesRemaining == {Imm(0), Imm(3), SubW(ZeroReg, Imm(2), 64).v}
SvcImmediates == {0, 255}
\* what GetTicksRemaining returns
TicksRemaining == {Imm(0), Imm(7), Imm(70000)}

Callback(fn, arg, s) == [fn |-> fn, arg |-> arg, fp |-> s.fp]

\* the guest reaches the instruction
A32EmitA64_EmitA32CallSupervisor_Enter ==
    /\ svc.at \in {"none", "done"}
    /\ \E c \in CyclesToRun, r \in CyclesRemaining, imm \in SvcImmediates :
          svc' = [NoSvc EXCEPT !.at = "SwitchFpscrOnExit", !.cycles_to_run = c, !.X26 = r,
                               !.imm = imm, !.entry = [cycles_to_run |-> c, X26 |-> r]]
    /\ UNCHANGED <<monvars, emvars, pvars, xvars, flg, rng, mpv>>

\* code.SwitchFpscrOnExit(); LDR ABI_PARAM2, cycles_to_run; SUB ABI_PARAM2, ABI_PARAM2, X26
A32EmitA64_EmitA32CallSupervisor_Exit ==
    /\ svc.at = "SwitchFpscrOnExit"
    /\ svc' = [svc EXCEPT !.at = "AddTicks", !.fp = "host",
                          !.ABI_PARAM2 = SubW(svc.cycles_to_run, svc.X26, 64).v]
    /\ UNCHANGED <<monvars, emvars, pvars, xvars, flg, rng, mpv>>

\* Devirtualize<&A32::UserCallbacks::AddTicks>(config.callbacks).EmitCall(code);
\* HostCall(nullptr, {}, args[0]): the immediate to ABI_PARAM2
A32EmitA64_EmitA32CallSupervisor_AddTicks ==
    /\ svc.at = "AddTicks"
    /\ svc' = [svc EXCEPT !.at = "CallSVC",
                          !.calls = Append(@, Callback("AddTicks", svc.ABI_PARAM2, svc)),
                          !.ABI_PARAM2 = Imm(svc.imm)]
    /\ UNCHANGED <<monvars, emvars, pvars, xvars, flg, rng, mpv>>

\* Devirtualize<&A32::UserCallbacks::CallSVC>(config.callbacks).EmitCall(code);
A32EmitA64_EmitA32CallSupervisor_CallSVC ==
    /\ svc.at = "CallSVC"
    /\ svc' = [svc EXCEPT !.at = "GetTicksRemaining",
                          !.calls = Append(@, Callback("CallSVC", svc.ABI_PARAM2, svc))]
    /\ UNCHANGED <<monvars, emvars, pvars, xvars, flg, rng, mpv>>

\* Devirtualize<&A32::UserCallbacks::GetTicksRemaining>(config.callbacks).EmitCall(code);
A32EmitA64_EmitA32CallSupervisor_GetTicksRemaining ==
    /\ svc.at = "GetTicksRemaining"
    /\ \E ticks \in TicksRemaining :
          svc' = [svc EXCEPT !.at = "STR",
                             !.calls = Append(@, Callback("GetTicksRemaining", ZeroReg, svc)),
                             !.ABI_RETURN = ticks]
    /\ UNCHANGED <<monvars, emvars, pvars, xvars, flg, rng, mpv>>

\* a store of the returned ticks that leaves X26 as it was
StoreTicks_JitStateOnly(s) == [s EXCEPT !.cycles_to_run = s.ABI_RETURN]
\* STR ABI_RETURN, cycles_to_run; MOV X26, ABI_RETURN
StoreTicks(s) == [s EXCEPT !.cycles_to_run = s.ABI_RETURN, !.X26 = s.ABI_RETURN]

\* the stores, then code.SwitchFpscrOnEntry()
A32EmitA64_EmitA32CallSupervisor_Entry ==
    /\ svc.at = "STR"
    /\ svc' = [StoreTicks(svc) EXCEPT !.at = "done", !.fp = "guest"]
    /\ UNCHANGED <<monvars, emvars, pvars, xvars, flg, rng, mpv>>

SupervisorNext ==
    \/ A32EmitA64_EmitA32CallSupervisor_Enter
    \/ A32EmitA64_EmitA32CallSupervisor_Exit
    \/ A32EmitA64_EmitA32CallSupervisor_AddTicks
    \/ A32EmitA64_EmitA32CallSupervisor_CallSVC
    \/ A32EmitA64_EmitA32CallSupervisor_GetTicksRemaining
    \/ A32EmitA64_EmitA32CallSupervisor_Entry

(***************************************************************************)
(* mp::conjunction (externals/mp/include/mp/metavalue/conjunction.h)       *)
(***************************************************************************)
\* longest list of metavalues
MaxVs == 3

\* metavalues: types with a static member value; three that are true, two false
Metavalues ==
    {[type |-> "T1", value |-> TRUE], [type |-> "T2", value |-> TRUE],
     [type |-> "true_type", value |-> TRUE],
     [type |-> "F1", value |-> FALSE], [type |-> "false_type", value |-> FALSE]}
false_type == [type |-> "false_type", value |-> FALSE]

\* mp::logic_if<C, T, F>: T if C::value, else F
logic_if(c, t, f) == IF c.value THEN t ELSE f

\* the recursion with the branches of logic_if as disjunction_impl has them
RECURSIVE conjunction_impl_AsDisjunction(_)
conjunction_impl_AsDisjunction(vs) ==
    IF vs = <<>> THEN false_type
    ELSE IF Len(vs) = 1 THEN vs[1]
    ELSE logic_if(vs[1], vs[1], conjunction_impl_AsDisjunction(Tail(vs)))

\* detail::conjunction_impl<Vs...>::type
RECURSIVE conjunction_impl(_)
conjunction_impl(vs) ==
    IF vs = <<>> THEN false_type
    ELSE IF Len(vs) = 1 THEN vs[1]
    ELSE logic_if(vs[1], conjunction_impl(Tail(vs)), vs[1])

\* conjunction<Vs...> and conjunction_v<Vs...>
conjunction(vs) == conjunction_impl(vs)
conjunction_v(vs) == conjunction(vs).value

NoMp == [op |-> "none", vs |-> <<>>, type |-> false_type, v |-> FALSE]

\* an instantiation of conjunction and of conjunction_v
mp_conjunction ==
    /\ \E n \in 0 .. MaxVs : \E vs \in [1 .. n -> Metavalues] :
          mpv' = [op |-> "conjunction", vs |-> vs, type |-> conjunction(vs),
                  v |-> conjunction_v(vs)]
    /\ UNCHANGED <<monvars, emvars, pvars, xvars, flg, rng, svc>>

MpNext == mp_conjunction

\* PopRSBHint: the block has written the return address to PC (and the mode bits
\* to the upper half); the terminal returns to the dispatcher, or branches to
\* terminal_handler_pop_rsb_hint, which jumps to the code pointer of the slot on
\* a match and goes to the fast dispatch handler or returns otherwise
Terminal_PopRSBHint ==
    /\ cpu.mode = "term"
    /\ em.code[cpu.at].kind = "PopRSBHint"
    /\ \E d \in LiveDescriptors :
         LET j1 == [js EXCEPT !.pc = d.pc, !.upper = d.upper]
             r  == PopRSBHintHandler(j1)
             f  == FastDispatchHintHandler(em, r.js)
         IN  IF em.code[cpu.at].form = "return"
             THEN /\ js' = j1
                  /\ em' = em
                  /\ cpu' = Host("PopRSBHint_return")
             ELSE IF r.hit
             THEN /\ js' = r.js
                  /\ em' = em
                  /\ cpu' = Enter(em, r.target, "rsb_hit")
             ELSE IF config.enable_fast_dispatch
             THEN /\ CanFastDispatch(em, r.js)
                  /\ js' = r.js
                  /\ em' = f.em
                  /\ cpu' = Enter(em', f.target, "rsb_miss_fast_dispatch")
             ELSE /\ js' = r.js
                  /\ em' = em
                  /\ cpu' = Host("rsb_miss_return")
    /\ UNCHANGED <<config, monvars, pvars, xvars, yvars>>

\* FastDispatchHint: the block has written the branch target to PC; the terminal
\* branches to terminal_handler_fast_dispatch_hint, or returns to the dispatcher
Terminal_FastDispatchHint ==
    /\ cpu.mode = "term"
    /\ em.code[cpu.at].kind = "FastDispatchHint"
    /\ \E d \in LiveDescriptors :
         LET j1 == [js EXCEPT !.pc = d.pc, !.upper = d.upper]
             f  == FastDispatchHintHandler(em, j1)
         IN  /\ js' = j1
             /\ IF em.code[cpu.at].form = "return"
                THEN em' = em /\ cpu' = Host("none")
                ELSE /\ CanFastDispatch(em, j1)
                     /\ em' = f.em
                     /\ cpu' = Enter(em', f.target,
                                     IF f.hit THEN "fast_dispatch_hit"
                                     ELSE "fast_dispatch_miss")
    /\ UNCHANGED <<config, monvars, pvars, xvars, yvars>>

\* the calls and steps of the emitter with the block cache, the RSB and the fast
\* dispatch table
CacheNext ==
    \/ Jit_SetRegisters
    \/ Jit_Run
    \/ Jit_InvalidateCacheRange
    \/ Jit_ClearCache
    \/ Mem_Access
    \/ Terminal_LinkBlock
    \/ Terminal_LinkBlockFast
    \/ Terminal_PopRSBHint
    \/ Terminal_FastDispatchHint

\* the same with faults of fastmem accesses
FastmemNext ==
    \/ Jit_SetRegisters
    \/ Jit_Run
    \/ Jit_InvalidateCacheRange
    \/ Jit_ClearCache
    \/ Mem_Access
    \/ Mem_Fault
    \/ Terminal_LinkBlock
    \/ Terminal_LinkBlockFast
    \/ Terminal_PopRSBHint
    \/ Terminal_FastDispatchHint

\* running and single-stepping, the cache only growing
StepNext ==
    \/ Jit_SetRegisters
    \/ Jit_Run
    \/ Jit_Step
    \/ Mem_Access
    \/ Terminal_LinkBlock
    \/ Terminal_LinkBlockFast
    \/ Terminal_PopRSBHint
    \/ Terminal_FastDispatchHint

(***************************************************************************)
(* Specifications                                                          *)
(***************************************************************************)
vars == <<monvars, emvars, pvars, xvars, yvars>>

\* the emitter of the monitor's specifications: constructed and left alone
EmIdle ==
    /\ config = [enable_fast_dispatch |-> FALSE, enable_optimizations |-> FALSE,
                 fastmem |-> FALSE, always_little_endian |-> FALSE]
    /\ em = NewEmitter
    /\ js = NewJitState
    /\ cpu = Host("none")

\* no saturation instruction emitted, no word decoded
PIdle == sat = NoSaturation /\ dec = NoDecode

\* no block emitted through the paths below, no thread in one, no coprocessor
\* instruction and no guest-state write emitted, both processors before their LDREX
XIdle ==
    /\ blk = NoBlock
    /\ run = NoRun
    /\ cop = NoCoproc
    /\ gst = NoGuestWrite
    /\ smp = NoSmp

\* ... and no flag instruction
YIdle == flg = NoFlags /\ rng = NoRange /\ svc = NoSvc /\ mpv = NoMp

Init == MonInit /\ EmIdle /\ PIdle /\ XIdle /\ YIdle

\* the same monitor, keeping for each processor the writes made to its granule
InitHist ==
    /\ is_locked = FALSE
    /\ exclusive_addresses = [p \in Procs |-> INVALID_EXCLUSIVE_ADDRESS]
    /\ exclusive_values = [p \in Procs |-> 0]
    /\ mem = [a \in Addrs |-> 0]
    /\ mpc = [p \in Procs |-> "idle"]
    /\ marg = [p \in Procs |-> NoArg]
    /\ mloc = [p \in Procs |-> NoLoc]
    /\ mhist = [p \in Procs |-> NoHist]
    /\ track_writes = TRUE
    /\ EmIdle
    /\ PIdle
    /\ XIdle /\ YIdle

SpecMonitor == Init /\ [][MonNext]_vars

SpecMonitorHist == InitHist /\ [][MonNext]_vars

\* the emitter without fastmem, with and without fast dispatch and optimizations
\* (no descriptor of the guest program below has the E bit set, so that
\* always_little_endian changes nothing there and is left off)
InitCache ==
    MonInit /\ EmInit /\ PIdle /\ XIdle /\ YIdle /\ ~config.fastmem
    /\ ~config.always_little_endian

SpecCache == InitCache /\ [][CacheNext]_vars

\* the emitter with fastmem
InitFastmem ==
    /\ MonInit
    /\ EmInit
    /\ PIdle
    /\ XIdle /\ YIdle
    /\ config.fastmem /\ config.enable_optimizations /\ ~config.enable_fast_dispatch
    /\ ~config.always_little_endian

SpecFastmem == InitFastmem /\ [][FastmemNext]_vars

\* the emitter run and single-stepped
InitStep ==
    /\ MonInit
    /\ EmInit
    /\ PIdle
    /\ XIdle /\ YIdle
    /\ ~config.fastmem /\ config.enable_optimizations
    /\ ~config.always_little_endian

SpecStep == InitStep /\ [][StepNext]_vars


\* the signed saturating add and subtract of every size, on sampled operands
InitSignedSaturatedOp ==
    /\ MonInit /\ EmIdle /\ XIdle /\ YIdle /\ dec = NoDecode
    /\ SaturatedOpInst({"SignedSaturatedAdd", "SignedSaturatedSub"})

SpecSignedSaturatedOp == InitSignedSaturatedOp /\ [][EmitX64_EmitSignedSaturated]_vars

\* the unsigned saturating add and subtract of every size, on sampled operands
InitUnsignedSaturatedOp ==
    /\ MonInit /\ EmIdle /\ XIdle /\ YIdle /\ dec = NoDecode
    /\ SaturatedOpInst({"UnsignedSaturatedAdd", "UnsignedSaturatedSub"})

SpecUnsignedSaturatedOp == InitUnsignedSaturatedOp /\ [][EmitX64_EmitUnsignedSaturated]_vars

\* the doubling multiplies returning the high half, on sampled operands
InitDoublingMultiply ==
    /\ MonInit /\ EmIdle /\ XIdle /\ YIdle /\ dec = NoDecode
    /\ \E size \in {16, 32}, oi \in BOOLEAN, junk \in {0, 1} :
           \E a \in Samples(size), b \in Samples(size) :
               sat = Inst("SignedSaturatedDoublingMultiplyReturnHigh", size, a, b, 0, oi, junk)

SpecDoublingMultiply ==
    InitDoublingMultiply /\ [][EmitX64_EmitSignedSaturatedDoublingMultiplyReturnHigh]_vars

\* the saturations to N bits, for every immediate N up to MaxN, on sampled operands
SaturationNext ==
    \/ EmitX64_EmitSignedSaturation
    \/ EmitX64_EmitUnsignedSaturation

InitSaturation ==
    /\ MonInit /\ EmIdle /\ XIdle /\ YIdle /\ dec = NoDecode
    /\ \E opcode \in {"SignedSaturation", "UnsignedSaturation"}, N \in 0 .. MaxN,
          oi \in BOOLEAN, junk \in {0, 1} :
           \E a \in SaturationSamples(N) : sat = Inst(opcode, 32, a, ZeroReg, N, oi, junk)

SpecSaturation == InitSaturation /\ [][SaturationNext]_vars

\* one matcher of any mask and expected value, asked about one word
InitMatcher ==
    /\ MonInit /\ EmIdle /\ XIdle /\ YIdle /\ sat = NoSaturation
    /\ \E mask \in OpcodeWords, expected \in OpcodeWords, word \in OpcodeWords :
           dec = [NoDecode EXCEPT !.table = <<Matcher("1", mask, expected)>>,
                                  !.matcher = 1, !.word = word]

SpecMatcher == InitMatcher /\ [][Matcher_Matches]_vars

\* a decode table and a word to decode
DecoderNext ==
    \/ Decoder_Decode
    \/ Matcher_call

InitDecoder ==
    /\ MonInit /\ EmIdle /\ XIdle /\ YIdle /\ sat = NoSaturation
    /\ \E n \in 1 .. MaxMatchers, word \in OpcodeWords :
           \E table \in Tables(n) : dec = [NoDecode EXCEPT !.table = table, !.word = word]

SpecDecoder == InitDecoder /\ [][DecoderNext]_vars

\* one block emitted and run, with and without optimizations, the halt byte set at
\* any moment
InitBlock ==
    /\ MonInit /\ EmInit /\ PIdle /\ XIdle /\ YIdle
    /\ ~config.fastmem /\ ~config.enable_fast_dispatch

SpecBlock == InitBlock /\ [][BlockNext]_vars

\* coprocessor instructions emitted under each configuration of the slots
InitCoproc ==
    /\ MonInit /\ EmIdle /\ PIdle /\ YIdle
    /\ blk = NoBlock /\ run = NoRun /\ gst = NoGuestWrite /\ smp = NoSmp
    /\ \E coprocessors \in CoprocConfigs : cop = [NoCoproc EXCEPT !.coprocessors = coprocessors]

SpecCoproc == InitCoproc /\ [][A32EmitA64_EmitA32Coproc]_vars

\* the processors running exclusive and plain accesses in any order
InitExclusive == MonInit /\ EmIdle /\ PIdle /\ XIdle /\ YIdle

SpecExclusive == InitExclusive /\ [][ExclusiveNext]_vars

\* BXWritePC in a block at each location, with each argument, immediate or not
InitBXWritePC ==
    /\ MonInit /\ EmIdle /\ PIdle /\ YIdle
    /\ blk = NoBlock /\ run = NoRun /\ cop = NoCoproc /\ smp = NoSmp
    /\ \E arg \in GuestWriteArgs({0, 10}), location \in GuestWriteLocations, immediate \in BOOLEAN :
           gst = [NoGuestWrite EXCEPT !.opcode = "BXWritePC", !.immediate = immediate,
                                      !.arg = arg, !.location = location]

SpecBXWritePC == InitBXWritePC /\ [][A32EmitA64_EmitA32BXWritePC]_vars

\* SetGEFlagsCompressed with each argument, immediate or not
InitSetGEFlags ==
    /\ MonInit /\ EmIdle /\ PIdle /\ YIdle
    /\ blk = NoBlock /\ run = NoRun /\ cop = NoCoproc /\ smp = NoSmp
    /\ \E arg \in GuestWriteArgs(0 .. 15), immediate \in BOOLEAN :
           gst = [NoGuestWrite EXCEPT !.opcode = "SetGEFlagsCompressed",
                                      !.immediate = immediate, !.arg = arg]

SpecSetGEFlags == InitSetGEFlags /\ [][A32EmitA64_EmitA32SetGEFlagsCompressed]_vars

\* the flag instructions of a block on a new A32JitState
InitFlags == MonInit /\ EmIdle /\ PIdle /\ XIdle /\ YIdle
SpecFlags == InitFlags /\ [][FlagsNext]_vars

\* the emitter run and single-stepped, with and without optimizations and fast
\* dispatch
InitTerminals ==
    MonInit /\ EmInit /\ PIdle /\ XIdle /\ YIdle /\ ~config.fastmem
    /\ ~config.always_little_endian
SpecTerminals == InitTerminals /\ [][StepNext]_vars

InitRanges == MonInit /\ EmIdle /\ PIdle /\ XIdle /\ YIdle
SpecRanges == InitRanges /\ [][RangesNext]_vars

\* fair scheduling: a processor inside a call takes its next step, and a processor
\* spinning in Lock() gets the flag if the flag is clear again and again
MonFairness ==
    \A p \in Procs :
        /\ WF_vars(RM_Mark(p)) /\ WF_vars(RM_Op(p)) /\ WF_vars(RM_Unlock(p))
        /\ WF_vars(CheckAndClear(p)) /\ WF_vars(DX_AfterCheck(p))
        /\ WF_vars(DX_Op(p)) /\ WF_vars(DX_Unlock(p))
        /\ WF_vars(CP_Clear(p)) /\ WF_vars(CL_Clear(p))
        /\ SF_vars(RM_Lock(p)) /\ SF_vars(DX_Lock(p))
        /\ SF_vars(CP_Lock(p)) /\ SF_vars(CL_Lock(p))
\* the monitor under fair scheduling
SpecMonitorFair == Init /\ [][MonCallsNext]_vars /\ MonFairness

InitSupervisor == MonInit /\ EmIdle /\ PIdle /\ XIdle /\ YIdle
SpecSupervisor == InitSupervisor /\ [][SupervisorNext]_vars

InitMp == MonInit /\ EmIdle /\ PIdle /\ XIdle /\ YIdle
SpecMp == InitMp /\ [][MpNext]_vars

(***************************************************************************)
(* Integers beyond the checker's own: five digits of base 2^16, least      *)
(* significant first, the top digit signed.  Every integer of magnitude    *)
(* below 2^79 has exactly one such form.                                   *)
(***************************************************************************)
BigZero == <<0, 0, 0, 0, 0>>

RECURSIVE BigCarry(_, _, _)
BigCarry(raw, i, c) ==
    IF i = Len(BigZero) THEN <<raw[i] + c>>
    ELSE <<(raw[i] + c) % Limb>> \o BigCarry(raw, i + 1, (raw[i] + c) \div Limb)

BigAdd(x, y) == BigCarry([i \in DOMAIN BigZero |-> x[i] + y[i]], 1, 0)
BigSub(x, y) == BigCarry([i \in DOMAIN BigZero |-> x[i] - y[i]], 1, 0)
BigLe(x, y) == BigSub(y, x)[Len(BigZero)] >= 0
\* t * 2^(16 * k) for an integer t of the checker
BigOfInt(t, k) == BigCarry([i \in DOMAIN BigZero |-> IF i = k + 1 THEN t ELSE 0], 1, 0)
BigPow2(k) == BigOfInt(Pow2(k % 16), k \div 16)

\* the low w bits of a register read as an unsigned and as a signed integer
UnsignedValue(v, w) == [i \in DOMAIN BigZero |-> IF i <= 4 THEN Trunc(v, w)[i] ELSE 0]
SignedValue(v, w) ==
    IF Sign(v, w) = 1 THEN BigSub(UnsignedValue(v, w), BigPow2(w)) ELSE UnsignedValue(v, w)

SignedMax(w) == BigSub(BigPow2(w - 1), BigOfInt(1, 0))
SignedMin(w) == BigSub(BigZero, BigPow2(w - 1))
UnsignedMax(w) == BigSub(BigPow2(w), BigOfInt(1, 0))

\* the flag a GetOverflowFromOp reads: the low byte of the register defined for it
OverflowFlag(o) == Trunc(o.overflow, 8) # ZeroReg

\* x * s for a small integer s (|s| <= 2^8), and x * y for an integer y of the checker
BigTimes(x, s) == BigCarry([i \in DOMAIN BigZero |-> x[i] * s], 1, 0)

RECURSIVE BigMulInt(_, _)
BigMulInt(x, y) ==
    IF y >= -128 /\ y <= 127 THEN BigTimes(x, y)
    ELSE BigAdd(BigTimes(BigMulInt(x, y \div Byte), Byte), BigTimes(x, y % Byte))

\* floor(x / 2^n)
BigShr(x, n) ==
    LET r == n % 16
        y == IF r = 0 THEN x ELSE BigTimes(x, Pow2(16 - r))
        q == IF r = 0 THEN n \div 16 ELSE (n \div 16) + 1
    IN  BigCarry([i \in DOMAIN BigZero |-> IF i + q <= Len(BigZero) THEN y[i + q] ELSE 0], 1, 0)

\* the low w <= 32 bits of a register as a signed integer of the checker
SignedInt(v, w) ==
    IF w = 32 THEN v[1] + Limb * (v[2] - (IF v[2] >= Limb \div 2 THEN Limb ELSE 0))
    ELSE IF w = 16 THEN v[1] - (IF v[1] >= Limb \div 2 THEN Limb ELSE 0)
    ELSE (v[1] % Byte) - (IF v[1] % Byte >= Byte \div 2 THEN Byte ELSE 0)

BigClamp(x, lo, hi) == IF ~BigLe(lo, x) THEN lo ELSE IF ~BigLe(x, hi) THEN hi ELSE x

\* the flag's value where the instruction has one: the register defined for it, or
\* false where its uses were replaced by the immediate
FlagKnown(o) == o.overflow_defined \/ o.overflow_replaced
FlagValue(o) == IF o.overflow_replaced THEN FALSE ELSE OverflowFlag(o)
(***************************************************************************)
(* ExclusiveMonitor: properties                                            *)
(***************************************************************************)
\* the positions between Lock() and Unlock()
InCritical(p) ==
    \/ mpc[p] \in {"rm_mark", "rm_op", "rm_unlock", "dx_check", "dx_op", "dx_unlock"}
    \/ mpc[p] = "dx_ret" /\ mloc[p].ok

\* the op of p's DoExclusiveOperation has just been executed
OpExecuted(p) == mpc[p] = "dx_unlock"

\* C1 (as stated): when the op of P's DoExclusiveOperation has been executed, no
\* other processor has written, exclusively or otherwise, to P's reservation
\* granule since P's ReadAndMark.
C1_NoWriteBetween ==
    \A p \in Procs : OpExecuted(p) => ~mhist[p].excl /\ ~mhist[p].plain

\* C1 (amended): when the op of P's DoExclusiveOperation has been executed, no
\* other processor has executed the op of a DoExclusiveOperation on P's reservation
\* granule since P's ReadAndMark (ordinary stores are not seen by the monitor).
C1_NoExclusiveWriteBetween ==
    \A p \in Procs : OpExecuted(p) => ~mhist[p].excl

\* P's exclusive store has gone through and hit the granule another processor marked
C1_Witness ==
    \E p, q \in Procs : p # q /\ OpExecuted(p) /\ mhist[q].excl
                          /\ exclusive_addresses[q] = INVALID_EXCLUSIVE_ADDRESS

\* C2 (as stated): at most one processor id holds a reservation for a given
\* address word.
C2_AtMostOneReservation ==
    \A a \in Addrs : Cardinality({p \in Procs : exclusive_addresses[p] = a}) <= 1

\* C2 (amended): once DoExclusiveOperation(P, a) has passed its check, and until it
\* unlocks, no processor holds a reservation for the address word a; so of the
\* processors that marked a, one at most gets its op executed.
C2_NoReservationDuringOp ==
    \A p \in Procs :
        (mpc[p] \in {"dx_op", "dx_unlock"} \/ (mpc[p] = "dx_ret" /\ mloc[p].ok))
        => \A q \in Procs : exclusive_addresses[q] # MaskedAddress(marg[p].addr)

\* both processors had marked the word, one of them is running its op, and the
\* other is already back in ReadAndMark waiting for the lock
C2_Witness ==
    \E p, q \in Procs : p # q /\ mpc[p] = "dx_op" /\ mpc[q] = "rm_lock"
                          /\ exclusive_values[q] # exclusive_values[p]

\* C3: no two processors are between Lock() and Unlock() at once, and the flag is
\* set exactly while one is: an op never interleaves with another processor's op
\* or with its update of exclusive_addresses / exclusive_values.
C3_MutualExclusion ==
    /\ Cardinality({p \in Procs : InCritical(p)}) <= 1
    /\ is_locked <=> (\E p \in Procs : InCritical(p))

\* one processor runs its op while another spins in Lock()
C3_Witness ==
    \E p, q \in Procs : p # q /\ mpc[p] \in {"rm_op", "dx_op"}
                          /\ mpc[q] \in {"rm_lock", "dx_lock"}


(***************************************************************************)
(* A32EmitA64: properties                                                  *)
(***************************************************************************)
\* the guest is inside an emitted block
InBlock == cpu.mode \in {"mem", "term"}

\* the block at a location covers guest addresses of the range
Overlaps(l, r) == l.pc <= r.hi /\ r.lo <= EndPC(l) - 1

\* C4 (as stated): once InvalidateCacheRanges has removed a block, the guest
\* never again executes the host code of that block, whatever the entry path.
C4_NoInvalidatedCodeRuns ==
    InBlock => cpu.at \notin em.invalidated

\* the only jump that enters the code of a removed block is a hit of the RSB
\* (and the jumps made from inside such a block are not stale themselves)
StaleEntryOnlyThroughRSB ==
    (InBlock /\ cpu.at \in em.invalidated) => cpu.via = "rsb_hit"

\* the state of the emitter e1 is what InvalidateCacheRanges(r) has to leave of
\* the state e: no descriptor that overlaps r is in the cache, no link site jumps
\* to (and no mov_x0 site holds) the code of an overlapping target, and the fast
\* dispatch entry the handler indexes for a removed descriptor is empty
InvalidatedAsClaimed(e, e1, r) ==
    /\ \A l \in Locations : Overlaps(l, r) => e1.block_descriptors[l] = NullPtr
    /\ \A i \in DOMAIN e1.code :
          (e1.code[i].form \in {"jg", "jmp"} /\ Overlaps(e1.code[i].next, r))
          => /\ e1.code[i].jump = NullPtr
             /\ e1.code[i].form = "jg" => e1.code[i].mov_x0 = ReturnFromRunCodeAddress
    /\ config.enable_fast_dispatch
       => \A l \in Locations :
             (Overlaps(l, r) /\ e.block_descriptors[l] # NullPtr)
             => e1.fast_dispatch_table[FastDispatchIndex[l.pc]] = EmptyEntry

\* C5: InvalidateCacheRanges(ranges), called in any state the emitter reaches,
\* removes every block descriptor whose range overlaps, puts every link site that
\* referenced a removed block back into the unpatched form, and empties, for
\* each removed descriptor, the fast dispatch entry that the handler indexes for it.
C5_InvalidateRemovesUnpatchesClears ==
    cpu.mode = "host" =>
        \A r \in Ranges : InvalidatedAsClaimed(em, InvalidateCacheRanges(em, r), r)

\* an invalidation has just removed a block to which another block was linked
\* and whose descriptor was in use with fast dispatch enabled
C5_Witness ==
    /\ cpu.via = "InvalidateCacheRanges"
    /\ config.enable_fast_dispatch
    /\ \E i \in em.invalidated, k \in DOMAIN em.code :
          /\ em.block_descriptors[em.code[i].location] = NullPtr
          /\ em.code[k].form \in {"jg", "jmp"}
          /\ em.code[k].next = em.code[i].location
          /\ em.code[k].jump = NullPtr
    /\ \E s \in Slots : em.fast_dispatch_table[s] # EmptyEntry

\* --- the RSB ---------------------------------------------------------------
\* a step that executes a PopRSBHint terminal
PopStep == cpu.mode = "term" /\ em.code[cpu.at].kind = "PopRSBHint"
\* ... one that was emitted as the branch to terminal_handler_pop_rsb_hint
PopHandlerStep == PopStep /\ em.code[cpu.at].form = "pop_rsb_hint"

\* the RSB slot at the decremented rsb_ptr
PoppedIndex == (js.rsb_ptr + RSBPtrMask) % (RSBPtrMask + 1)
\* the live descriptor of the pop (the terminal's block has just written it)
\* equals the descriptor of that slot, bit for bit
PopMatches ==
    /\ js.rsb_location_descriptors[PoppedIndex].lo = js'.pc
    /\ js.rsb_location_descriptors[PoppedIndex].hi = js'.upper
\* execution goes to the code pointer of the slot
JumpsToCached ==
    /\ cpu'.via = "rsb_hit"
    /\ \/ cpu'.at = js.rsb_codeptrs[PoppedIndex]
       \/ js.rsb_codeptrs[PoppedIndex] = ReturnFromRunCodeAddress /\ cpu'.mode = "host"
\* execution goes to the fast dispatch handler when there is one, and back to
\* the dispatcher otherwise
TakesSlowPath ==
    IF config.enable_fast_dispatch
    THEN cpu'.via = "rsb_miss_fast_dispatch"
    ELSE cpu'.mode = "host" /\ cpu'.via = "rsb_miss_return"

\* C6 (as stated): whenever a PopRSBHint terminal executes, host execution jumps
\* to the code pointer of the RSB slot at the decremented rsb_ptr if and only if
\* the live descriptor equals the descriptor of that slot.
C6_PopJumpsIffMatch ==
    [][PopStep => (PopMatches <=> JumpsToCached)]_vars

\* C6 (amended): that holds of the PopRSBHint terminals emitted with
\* optimizations enabled for a block that is not single-stepping, and their
\* mismatch takes the slow path; the other PopRSBHint terminals return to the
\* dispatcher without reading or moving the RSB.
C6_HandlerJumpsIffMatch ==
    [][/\ PopHandlerStep => /\ PopMatches <=> JumpsToCached
                            /\ ~PopMatches => TakesSlowPath
       /\ (PopStep /\ ~PopHandlerStep)
          => /\ cpu'.mode = "host" /\ cpu'.via = "PopRSBHint_return"
             /\ js'.rsb_ptr = js.rsb_ptr]_vars

\* a block has been entered on a hit of the RSB
C6_Witness == InBlock /\ cpu.via = "rsb_hit"

\* C7 (as stated): a pop whose slot does not match invalidates the slot and
\* takes the slow path.
C7_MismatchInvalidatesEntry ==
    [][(PopHandlerStep /\ ~PopMatches)
       => js'.rsb_location_descriptors[PoppedIndex] = EmptyDescriptor /\ TakesSlowPath]_vars

\* C7 (amended): a pop whose slot does not match leaves both RSB arrays as they
\* are and only stores the decremented rsb_ptr, so the slot can hit again on a
\* later pop without a push; execution takes the slow path.
C7_MismatchLeavesEntry ==
    [][(PopHandlerStep /\ ~PopMatches)
       => /\ js'.rsb_location_descriptors = js.rsb_location_descriptors
          /\ js'.rsb_codeptrs = js.rsb_codeptrs
          /\ js'.rsb_ptr = PoppedIndex
          /\ TakesSlowPath]_vars

\* a pop has just missed on a slot that holds a pushed descriptor, and the slot
\* still holds it
C7_Witness ==
    /\ cpu.via \in {"rsb_miss_return", "rsb_miss_fast_dispatch"}
    /\ js.rsb_location_descriptors[js.rsb_ptr] # EmptyDescriptor
    /\ js.rsb_codeptrs[js.rsb_ptr] \in DOMAIN em.code

\* --- fastmem ---------------------------------------------------------------
\* the fastmem site of the emitted block at a host address has been demoted
Demoted(e, ptr) == GenerateDoNotFastmemMarker(e.code[ptr].location) \in e.do_not_fastmem
\* there is a patch record for a host address
HasPatchRecord(e, ptr) == \E info \in e.fastmem_patch_info : info.pc = ptr

\* C8 (as stated): once the access of a site has faulted and the site is
\* demoted, no execution of its block performs the access in the fastmem form.
C8_NoFastmemAfterDemotion ==
    (cpu.mode = "mem" /\ em.code[cpu.at].mem = "fastmem") => ~Demoted(em, cpu.at)

\* the parts of C8 that hold: the marker set only grows (ClearCache and
\* InvalidateCacheRanges included), a block in the cache never has a demoted site
\* in the fastmem form, and a demoted site is executed in the fastmem form only
\* inside a block that is no longer in the cache, entered on a hit of the RSB,
\* after an InvalidateCacheRanges that removed a block
DemotedSitesStaySlow ==
    /\ \A l \in Locations :
          (em.block_descriptors[l] # NullPtr
           /\ GenerateDoNotFastmemMarker(l) \in em.do_not_fastmem)
          => em.code[em.block_descriptors[l]].mem # "fastmem"
    /\ (cpu.mode = "mem" /\ em.code[cpu.at].mem = "fastmem" /\ Demoted(em, cpu.at))
       => /\ cpu.via = "rsb_hit"
          /\ em.block_descriptors[em.code[cpu.at].location] # cpu.at
          /\ em.invalidated # {}
MarkersOnlyGrow ==
    [][em.do_not_fastmem \subseteq em'.do_not_fastmem]_vars

\* a step in which the access of the current block faults
FaultStep == cpu.mode = "mem" /\ cpu'.mode # "term" /\ <<em, cpu>>' # <<em, cpu>>

\* C9: a fault at a PC that has a patch record rewrites the site, records the
\* marker of the site, removes the block of the site from the cache and erases
\* the record, so the site has no record afterwards; a fault at a PC without a
\* record (a site demoted before included) fails the assertion.  No site out
\* of the fastmem form has a record, so a site is demoted at most once.
C9_FaultDemotesOnce ==
    /\ [](\A i \in DOMAIN em.code : HasPatchRecord(em, i) => em.code[i].mem = "fastmem")
    /\ [][FaultStep =>
            IF HasPatchRecord(em, cpu.at)
            THEN /\ cpu'.mode = "mem" /\ cpu'.at = cpu.at
                 /\ em'.code[cpu.at].mem = "thunk"
                 /\ em'.do_not_fastmem =
                        em.do_not_fastmem
                        \cup {GenerateDoNotFastmemMarker(em.code[cpu.at].location)}
                 /\ em'.block_descriptors[em.code[cpu.at].location] = NullPtr
                 /\ em'.fastmem_patch_info =
                        {info \in em.fastmem_patch_info : info.pc # cpu.at}
            ELSE cpu'.mode = "assert" /\ em' = em]_vars

\* a site that was demoted has been reported to fault a second time
C9_Witness ==
    /\ cpu.mode = "assert"
    /\ em.code[cpu.at].mem = "thunk"
    /\ Demoted(em, cpu.at)
    /\ ~HasPatchRecord(em, cpu.at)

\* --- the fast dispatch table -------------------------------------------------
\* a step that runs terminal_handler_fast_dispatch_hint from its top
FastDispatchStep ==
    /\ cpu.mode = "term"
    /\ em.code[cpu.at].kind = "FastDispatchHint"
    /\ em.code[cpu.at].form = "fast_dispatch_hint"

\* the block of the cache that the live descriptor of the step names
LiveBlock == em'.block_descriptors[[pc |-> js'.pc, upper |-> js'.upper, single_step |-> FALSE]]

\* C10: the handler jumps to the code pointer of the entry it indexes if the
\* entry stores the live descriptor, and otherwise stores the live descriptor
\* and the code pointer the lookup returns in that entry and jumps to it; every
\* entry that stores a descriptor holds the entrypoint the cache has for it, so
\* both ways enter the current block of the live descriptor.
C10_FastDispatchIsAHint ==
    /\ [](\A s \in Slots :
            em.fast_dispatch_table[s].location_descriptor # EmptyDescriptor
            => \E l \in Locations :
                  /\ UniqueHash(l) = em.fast_dispatch_table[s].location_descriptor
                  /\ em.block_descriptors[l] # NullPtr
                  /\ em.fast_dispatch_table[s].code_ptr = em.block_descriptors[l])
    /\ [][FastDispatchStep =>
            LET index == FastDispatchIndex[js'.pc]
                live == [lo |-> js'.pc, hi |-> js'.upper]
            IN /\ IF em.fast_dispatch_table[index].location_descriptor = live
                  THEN /\ em' = em
                       /\ cpu'.at = em.fast_dispatch_table[index].code_ptr
                       /\ cpu'.via = "fast_dispatch_hit"
                  ELSE /\ em'.fast_dispatch_table[index] =
                              [location_descriptor |-> live, code_ptr |-> LiveBlock]
                       /\ cpu'.via = "fast_dispatch_miss"
               /\ cpu'.at = LiveBlock /\ LiveBlock # NullPtr
               /\ cpu'.mode \in {"mem", "term"}]_vars

\* a block has been entered on a hit of the fast dispatch table
C10_Witness ==
    /\ InBlock /\ cpu.via = "fast_dispatch_hit"
    /\ \E s \in Slots : em.fast_dispatch_table[s].code_ptr = cpu.at

(***************************************************************************)
(* Saturating arithmetic                                                   *)
(***************************************************************************)
SignedOpRan == sat.ran /\ sat.opcode \in {"SignedSaturatedAdd", "SignedSaturatedSub"}

SignedExact ==
    IF sat.opcode = "SignedSaturatedAdd"
    THEN BigAdd(SignedValue(sat.a, sat.size), SignedValue(sat.b, sat.size))
    ELSE BigSub(SignedValue(sat.a, sat.size), SignedValue(sat.b, sat.size))

SignedFits == BigLe(SignedMin(sat.size), SignedExact) /\ BigLe(SignedExact, SignedMax(sat.size))

\* C11: SignedSaturatedAdd and SignedSaturatedSub of width 8, 16, 32 and 64 return
\* the exact sum or difference when it is representable at that width, and otherwise
\* the signed maximum when the first operand is non-negative and the signed minimum
\* when it is negative; the overflow flag read by GetOverflowFromOp is set exactly
\* when the result was clamped.
C11_SignedSaturatedAddSub ==
    SignedOpRan =>
        /\ SignedValue(sat.out.result, sat.size) =
               IF SignedFits THEN SignedExact
               ELSE IF BigLe(BigZero, SignedValue(sat.a, sat.size))
                    THEN SignedMax(sat.size) ELSE SignedMin(sat.size)
        /\ sat.overflow_inst =>
               sat.out.overflow_defined /\ (OverflowFlag(sat.out) <=> ~SignedFits)

\* a 64-bit subtraction from a negative operand clamped to the minimum, flag set
C11_Witness ==
    /\ SignedOpRan
    /\ sat.opcode = "SignedSaturatedSub" /\ sat.size = 64
    /\ ~SignedFits /\ ~BigLe(BigZero, SignedValue(sat.a, 64))
    /\ sat.overflow_inst /\ OverflowFlag(sat.out)
    /\ SignedValue(sat.out.result, 64) = SignedMin(64)

UnsignedOpRan == sat.ran /\ sat.opcode \in {"UnsignedSaturatedAdd", "UnsignedSaturatedSub"}

UnsignedExact ==
    IF sat.opcode = "UnsignedSaturatedAdd"
    THEN BigAdd(UnsignedValue(sat.a, sat.size), UnsignedValue(sat.b, sat.size))
    ELSE BigSub(UnsignedValue(sat.a, sat.size), UnsignedValue(sat.b, sat.size))

UnsignedClamped ==
    IF sat.opcode = "UnsignedSaturatedAdd"
    THEN IF BigLe(UnsignedExact, UnsignedMax(sat.size)) THEN UnsignedExact
         ELSE UnsignedMax(sat.size)
    ELSE IF BigLe(BigZero, UnsignedExact) THEN UnsignedExact ELSE BigZero

\* C12: UnsignedSaturatedAdd of width w returns min(a + b, 2^w - 1) and
\* UnsignedSaturatedSub returns max(a - b, 0); the overflow flag is set exactly when
\* the result was clamped.
C12_UnsignedSaturatedAddSub ==
    UnsignedOpRan =>
        /\ UnsignedValue(sat.out.result, sat.size) = UnsignedClamped
        /\ sat.overflow_inst =>
               /\ sat.out.overflow_defined
               /\ OverflowFlag(sat.out) <=> (UnsignedClamped # UnsignedExact)

\* an 8-bit addition clamped to 255 and a flag set, the operand registers holding
\* set bits above their low byte
C12_Witness ==
    /\ UnsignedOpRan
    /\ sat.opcode = "UnsignedSaturatedAdd" /\ sat.size = 8 /\ sat.junk = 1
    /\ UnsignedClamped # UnsignedExact
    /\ sat.overflow_inst /\ OverflowFlag(sat.out)
    /\ UnsignedValue(sat.out.result, 8) = UnsignedMax(8)

DoublingRan == sat.ran /\ sat.opcode = "SignedSaturatedDoublingMultiplyReturnHigh"

\* 2 * x * y, exactly
DoubledProduct ==
    BigTimes(BigMulInt(SignedValue(sat.a, sat.size), SignedInt(sat.b, sat.size)), 2)

DoublingHigh(shift) == BigShr(DoubledProduct, shift)

DoublingAgrees(shift) ==
    /\ SignedValue(sat.out.result, sat.size) =
           BigClamp(DoublingHigh(shift), SignedMin(sat.size), SignedMax(sat.size))
    /\ sat.overflow_inst =>
           /\ sat.out.overflow_defined
           /\ OverflowFlag(sat.out) <=>
                  (BigClamp(DoublingHigh(shift), SignedMin(sat.size), SignedMax(sat.size))
                       # DoublingHigh(shift))

\* C13 (as stated): the doubling multiply returning the high half, of width 16 and
\* 32, returns sat((2*x*y) >> (2*width - 1)) clamped to 0x7FFF / 0x7FFFFFFF, and
\* the overflow flag is set exactly when the result was saturated.
C13_DoublingHighShiftTwiceWidth == DoublingRan => DoublingAgrees(2 * sat.size - 1)

\* C13 (amended): the doubling multiply returning the high half, of width 16 and 32,
\* returns sat((2*x*y) >> width), the high half of the doubled product, clamped to
\* 0x7FFF / 0x7FFFFFFF, and the overflow flag is set exactly when the result was
\* saturated (x and y both the signed minimum).
C13_DoublingHighShiftWidth == DoublingRan => DoublingAgrees(sat.size)

\* the 32-bit multiply of the minimum by itself: saturated to 0x7FFFFFFF, flag set
C13_Witness ==
    /\ DoublingRan /\ sat.size = 32
    /\ SignedValue(sat.a, 32) = SignedMin(32) /\ SignedValue(sat.b, 32) = SignedMin(32)
    /\ SignedValue(sat.out.result, 32) = SignedMax(32)
    /\ sat.overflow_inst /\ OverflowFlag(sat.out)

SignedSaturationRan == sat.ran /\ sat.opcode = "SignedSaturation"

SignedSaturated == BigClamp(SignedValue(sat.a, 32), SignedMin(sat.N), SignedMax(sat.N))

\* C14: SignedSaturation(x, N) with 1 <= N <= 32 clamps the signed 32-bit x to
\* [-2^(N-1), 2^(N-1) - 1], its overflow flag is set exactly when x lies outside
\* that interval, and an N outside 1..32 fails an assertion.
C14_SignedSaturationClamps ==
    SignedSaturationRan =>
        IF sat.N >= 1 /\ sat.N <= 32
        THEN /\ sat.out.fault = "none"
             /\ SignedValue(sat.out.result, 32) = SignedSaturated
             /\ sat.overflow_inst =>
                    /\ FlagKnown(sat.out)
                    /\ FlagValue(sat.out) <=> (SignedSaturated # SignedValue(sat.a, 32))
        ELSE sat.out.fault = "assert"

\* 128 saturated to 8 bits: 127 and the flag set
C14_Witness ==
    /\ SignedSaturationRan /\ sat.N = 8 /\ sat.a = OneBit(7)
    /\ SignedValue(sat.out.result, 32) = SignedMax(8)
    /\ sat.overflow_inst /\ FlagValue(sat.out)

\* C15: with N = 32 SignedSaturation emits nothing: its result is the input value
\* itself, and every use of the companion GetOverflowFromOp is replaced by the
\* immediate false instead of a register being defined for it.
C15_FullWidthIsNoOp ==
    (SignedSaturationRan /\ sat.N = 32) =>
        /\ sat.out.fault = "none"
        /\ ~sat.out.emitted
        /\ sat.out.result = ArgReg(sat.a, 32, sat.junk)
        /\ sat.overflow_inst =>
               sat.out.overflow_replaced /\ ~sat.out.overflow_defined /\ ~FlagValue(sat.out)

\* the minimum saturated to 32 bits, with a companion GetOverflowFromOp
C15_Witness ==
    /\ SignedSaturationRan /\ sat.N = 32 /\ sat.overflow_inst
    /\ SignedValue(sat.a, 32) = SignedMin(32)
    /\ SignedValue(sat.out.result, 32) = SignedMin(32)
    /\ sat.out.overflow_replaced

UnsignedSaturationRan == sat.ran /\ sat.opcode = "UnsignedSaturation"

UnsignedSaturated == BigClamp(SignedValue(sat.a, 32), BigZero, UnsignedMax(sat.N))

\* C16: UnsignedSaturation(x, N) with 0 <= N <= 31 clamps the signed 32-bit x to
\* [0, 2^N - 1] (a negative x gives 0, an x above the bound gives 2^N - 1), its
\* overflow flag is set exactly when x lies outside that interval, and an N above 31
\* fails an assertion.
C16_UnsignedSaturationClamps ==
    UnsignedSaturationRan =>
        IF sat.N <= 31
        THEN /\ sat.out.fault = "none"
             /\ UnsignedValue(sat.out.result, 32) = UnsignedSaturated
             /\ sat.overflow_inst =>
                    /\ FlagKnown(sat.out)
                    /\ FlagValue(sat.out) <=> (UnsignedSaturated # SignedValue(sat.a, 32))
        ELSE sat.out.fault = "assert"

\* a negative x saturated to 5 bits: 0 and the flag set
C16_Witness ==
    /\ UnsignedSaturationRan /\ sat.N = 5
    /\ ~BigLe(BigZero, SignedValue(sat.a, 32))
    /\ sat.out.result = ZeroReg
    /\ sat.overflow_inst /\ FlagValue(sat.out)

(***************************************************************************)
(* The decoder                                                             *)
(***************************************************************************)
\* bit i of a word
WordBit(w, i) == (w \div Pow2(i)) % 2

\* (word & mask) == expected, bit by bit
MaskedEquals(m, word) ==
    \A i \in 0 .. (WordBits - 1) : WordBit(word, i) * WordBit(m.mask, i) = WordBit(m.expected, i)

\* C17: Matcher::Matches(word) is true exactly when (word & mask) == expected, for
\* every word and every mask and expected value of the matcher.
C17_MatchesIsMaskedEquality ==
    dec.ran = "Matches" => (dec.matched <=> MaskedEquals(dec.table[dec.matcher], dec.word))

\* a matcher with an open bit matching a word that differs from its expected value
C17_Witness ==
    /\ dec.ran = "Matches" /\ dec.matched
    /\ dec.word # dec.table[dec.matcher].expected

MatchingPositions == {i \in DOMAIN dec.table : MaskedEquals(dec.table[i], dec.word)}

\* C18: the decoder returns the first matcher, in the order of the table, whose
\* (word & mask) == expected, whatever other matchers of the table match the word
\* too; with no such matcher the undefined-instruction handler runs.  A handler
\* runs only through Matcher::call with a word its matcher matches: call with any
\* other word fails an assertion and runs nothing.
C18_FirstMatchInDeclarationOrder ==
    /\ dec.ran = "Decode" =>
           /\ dec.fault = "none"
           /\ IF MatchingPositions = {}
              THEN dec.returned = 0 /\ dec.invoked = "undefined_instruction"
              ELSE /\ dec.returned \in MatchingPositions
                   /\ \A j \in MatchingPositions : dec.returned <= j
                   /\ dec.invoked = dec.table[dec.returned].name
    /\ dec.ran = "call" =>
           IF dec.matcher \in MatchingPositions
           THEN dec.fault = "none" /\ dec.invoked = dec.table[dec.matcher].name
           ELSE dec.fault = "assert" /\ dec.invoked = "none"
    /\ \A i \in DOMAIN dec.table :
           dec.invoked = dec.table[i].name => i \in MatchingPositions

\* a word the second and the third matcher match and the first does not: the second
\* is returned and its handler runs
C18_Witness ==
    /\ dec.ran = "Decode"
    /\ MatchingPositions = {2, 3}
    /\ dec.table[2] # dec.table[3]
    /\ dec.returned = 2 /\ dec.invoked = "2"

\* a call of a matcher with a word it does not match
C18_WitnessCall ==
    /\ dec.ran = "call" /\ dec.matcher \notin MatchingPositions /\ dec.fault = "assert"

(***************************************************************************)
(* Block linking                                                           *)
(***************************************************************************)
\* the terminal about to execute, and the block it links to
TerminalImage == em.code[cpu.at]
NextCompiled == GetBasicBlock(em, TerminalImage.next) # NullPtr

\* a step that executes a LinkBlock terminal emitted with optimizations enabled for
\* a block that is not single-stepping
LinkBlockStep ==
    cpu.mode = "term" /\ TerminalImage.kind = "LinkBlock" /\ TerminalImage.form = "jg"

\* the remaining cycles were not positive: the far code ran
CyclesNotPositive == cpu'.via = "ForceReturnFromRunCode"

\* execution continues at the entrypoint of the next block, the guest PC not stored
DirectTransfer ==
    /\ cpu'.mode \in {"mem", "term"} /\ cpu'.via = "link"
    /\ cpu'.at = GetBasicBlock(em, TerminalImage.next)
    /\ js'.pc = js.pc
    /\ js'.rsb_ptr = js.rsb_ptr

\* the next block's PC is in the guest state and execution is back in the host
StoresPCAndReturns == cpu'.mode = "host" /\ js'.pc = TerminalImage.next.pc

\* the next block's descriptor is in the RSB slot rsb_ptr pointed at
PushedOnRSB ==
    /\ js'.rsb_location_descriptors[js.rsb_ptr] = UniqueHash(TerminalImage.next)
    /\ js'.rsb_ptr = (js.rsb_ptr + 1) % (RSBPtrMask + 1)

\* C19: a LinkBlock(next) terminal emitted with optimizations enabled and not for
\* single-stepping transfers control to next's entrypoint when the remaining cycles
\* are positive and next is compiled; when the cycles are not positive it stores
\* next's PC, pushes next's descriptor on the RSB and returns; when next is not
\* compiled (and the cycles are positive) its unpatched form stores next's PC and
\* returns, the RSB untouched.
C19_LinkBlock ==
    [][LinkBlockStep =>
          /\ (~CyclesNotPositive /\ NextCompiled) => DirectTransfer
          /\ CyclesNotPositive => (StoresPCAndReturns /\ PushedOnRSB)
          /\ (~CyclesNotPositive /\ ~NextCompiled) =>
                 (StoresPCAndReturns /\ js'.rsb_ptr = js.rsb_ptr)]_vars

\* the block at pc 4 entered by the patched jump of the LinkBlock that names it
C19_Witness ==
    /\ InBlock /\ cpu.via = "link"
    /\ em.code[cpu.at].location.pc = 4

\* back in the host from the far code of a LinkBlock, its descriptor on the RSB
C19_WitnessFarCode ==
    /\ cpu.mode = "host" /\ cpu.via = "ForceReturnFromRunCode"
    /\ \E i \in RSBIndices : js.rsb_location_descriptors[i] # EmptyDescriptor

\* a step that executes a LinkBlockFast terminal
LinkBlockFastStep == cpu.mode = "term" /\ TerminalImage.kind = "LinkBlockFast"

\* the one jump of a linked LinkBlockFast, or the store of the PC and the return
JumpsOrReturns ==
    IF NextCompiled THEN DirectTransfer
    ELSE StoresPCAndReturns /\ js'.rsb_ptr = js.rsb_ptr

\* C20 (as stated): a block ending in LinkBlockFast(next) jumps to next's
\* entrypoint when next is compiled, without storing the PC and without a test of
\* the remaining cycles, and stores next's PC and returns to the dispatcher when
\* next is not compiled.
C20_LinkBlockFastJumps == [][LinkBlockFastStep => JumpsOrReturns]_vars

\* C20 (amended): that holds of the LinkBlockFast terminals emitted with
\* optimizations enabled for a block that is not single-stepping; the others
\* store next's PC and return to the dispatcher whether or not next is compiled.
C20_LinkedLinkBlockFastJumps ==
    [][LinkBlockFastStep =>
          IF TerminalImage.form = "jmp" THEN JumpsOrReturns
          ELSE StoresPCAndReturns /\ js'.rsb_ptr = js.rsb_ptr]_vars

\* the block at pc 0 entered by the patched jump of the LinkBlockFast that names it
C20_Witness ==
    /\ InBlock /\ cpu.via = "link"
    /\ em.code[cpu.at].location.pc = 0

(***************************************************************************)
(* Terminals and the condition prelude                                     *)
(***************************************************************************)
\* the thread is at a terminal of the given kind and this step executes it
TerminalStep(kind) ==
    /\ run.at = "terminal"
    /\ run.term[1].kind = kind
    /\ (run'.at # run.at \/ run'.term # run.term)

\* C21: at a CheckHalt terminal a non-zero halt byte sends control to the host
\* through the forced return, the else terminal not executed (no callback called,
\* no guest register written); a zero byte goes on to the else terminal; and no
\* step taken in the prelude or the body of a block returns to the host
C21_CheckHaltPollsHaltByte ==
    [][/\ TerminalStep("CheckHalt") =>
            IF run.halt_requested # 0
            THEN /\ run'.at = "host"
                 /\ run'.via = "ForceReturnFromRunCode"
                 /\ run'.called = run.called
                 /\ js' = js
            ELSE /\ run'.at = "terminal"
                 /\ run'.term = <<run.term[1].else_>>
       /\ run.at \in {"prelude", "body"} => run'.at # "host"]_vars

\* a block ending in CheckHalt ran its whole body with the halt byte set and was
\* sent back to the host by the terminal
C21_Witness ==
    /\ blk.status = "emitted"
    /\ blk.terminal.kind = "CheckHalt"
    /\ blk.terminal.else_.kind = "Interpret"
    /\ run.at = "host"
    /\ run.executed = BodyLength
    /\ run.halt_requested = 1
    /\ run.via = "ForceReturnFromRunCode"
    /\ run.called = <<>>

\* the next locations of the Interpret terminals in a terminal
RECURSIVE InterpretTargets(_)
InterpretTargets(t) ==
    IF t.kind = "Interpret" THEN {t.next}
    ELSE IF t.kind = "CheckHalt" THEN InterpretTargets(t.else_)
    ELSE IF t.kind \in {"CheckBit", "If"}
    THEN InterpretTargets(t.then_) \cup InterpretTargets(t.else_)
    ELSE {}

\* C25: an Interpret(next, n) terminal stores next's PC to the guest PC, switches
\* the FP state to the host's, calls InterpreterFallback with that PC for n
\* instructions and returns to the host; and a block with an Interpret terminal
\* whose next differs from the block's location in T or in E fails an assertion
\* when it is emitted
C25_InterpretTerminal ==
    /\ [][TerminalStep("Interpret") =>
             /\ run'.called = <<[callback |-> "InterpreterFallback",
                                 pc |-> run.term[1].next.pc,
                                 num_instructions |-> run.term[1].num_instructions,
                                 jit_state_pc |-> run.term[1].next.pc,
                                 fp |-> "host"]>>
             /\ run'.at = "host"
             /\ run'.via = "ReturnFromRunCode"]_vars
    /\ [](blk # NoBlock =>
            ((\E next \in InterpretTargets(blk.ir.terminal) :
                  \/ TFlag(next) # TFlag(blk.ir.location)
                  \/ EFlag(next) # EFlag(blk.ir.location))
             => blk.status = "assert"))

\* an Interpret terminal for two instructions has run
C25_Witness ==
    /\ blk.status = "emitted"
    /\ run.at = "host"
    /\ run.called # <<>>
    /\ run.called[1].num_instructions = 2
    /\ run.via = "ReturnFromRunCode"

\* an Interpret terminal to a location of the other E flag was handed to Emit
C25_WitnessAssert ==
    /\ blk.status = "assert"
    /\ blk.ir.cond = "AL"
    /\ blk.ir.cond_failed = <<>>
    /\ \E next \in InterpretTargets(blk.ir.terminal) :
           EFlag(next) # EFlag(blk.ir.location) /\ TFlag(next) = TFlag(blk.ir.location)

\* C28: a block whose condition is not AL tests it before its first instruction;
\* when the test fails ConditionFailedCycleCount cycles are added and control
\* leaves through LinkBlock to ConditionFailedLocation, no instruction of the body
\* executed; when it passes the body runs; and a block has a condition-failed
\* location exactly if its condition is not AL, Emit failing an assertion otherwise
C28_CondPrelude ==
    /\ [][run.at = "prelude" /\ run'.at # "prelude" =>
             /\ run.executed = 0
             /\ \/ run'.at = "body" /\ ~run'.cond_failed
                \/ /\ blk.ir.cond # "AL"
                   /\ run'.cond_failed
                   /\ run'.at = "terminal"
                   /\ run'.term[1].kind = "LinkBlock"
                   /\ run'.term[1].next = ConditionFailedLocation(blk.ir)
                   /\ run'.cycles = ConditionFailedCycleCount
             /\ blk.ir.cond = "AL" => run'.at = "body"]_vars
    /\ [](blk # NoBlock =>
            /\ (blk.ir.cond # "AL") # HasConditionFailedLocation(blk.ir)
                   => blk.status = "assert"
            /\ (run.cond_failed =>
                   /\ run.executed = 0
                   /\ run.cycles = ConditionFailedCycleCount
                   /\ run.at \in {"terminal", "host"}
                   /\ run.at = "terminal" => run.term[1].kind = "LinkBlock"
                   /\ run.at = "host" => js.pc = ConditionFailedLocation(blk.ir).pc))

\* the condition of a block failed, and the block was left for the
\* condition-failed location with no instruction executed
C28_Witness ==
    /\ blk.status = "emitted"
    /\ run.cond_failed
    /\ run.at = "host"
    /\ run.executed = 0
    /\ js.pc = 4

(***************************************************************************)
(* Coprocessor instructions                                                *)
(***************************************************************************)
\* a coprocessor instruction was emitted whose slot is null or whose Compile*
\* callback returned the unhandled action
CoprocUnhandled ==
    /\ cop.opcode # "none"
    /\ (~cop.coprocessors[cop.coproc_num] \/ cop.action.index = 0)

\* C22: for every coprocessor instruction, with a null slot or an unhandled
\* action the emitter emits a coprocessor exception sequence into the block and
\* the translation goes on (no translator abort); with a callback action it emits
\* a host call, with a pointer action direct loads or stores
C22_CoprocExceptionInBlock ==
    cop.opcode # "none" =>
        IF CoprocUnhandled
        THEN cop.status = "emitted" /\ cop.code # <<>>
        ELSE /\ cop.status = "emitted"
             /\ cop.action.index = 1 => cop.code[1].op = "QuickCallFunction"
             /\ cop.action.index = 2 =>
                    \A i \in 1 .. Len(cop.code) : cop.code[i].op \in {"STR", "LDR", "ORR_LSL32"}

\* what the emitter does instead: a null slot or an unhandled action aborts the
\* translator; the callback and pointer actions are emitted as the claim says
CoprocUnhandledAborts ==
    cop.opcode # "none" =>
        IF CoprocUnhandled
        THEN cop.status = "assert" /\ cop.code = <<>>
        ELSE /\ cop.status = "emitted"
             /\ cop.action.index = 1 => cop.code[1].op = "QuickCallFunction"
             /\ cop.action.index = 2 =>
                    \A i \in 1 .. Len(cop.code) : cop.code[i].op \in {"STR", "LDR", "ORR_LSL32"}

(***************************************************************************)
(* LDREX / STREX                                                           *)
(***************************************************************************)
\* a processor has just run STREX on the address of the LDREX that was its
\* instruction before
StrexAfterLdrex == smp.last.kind = "STREX" /\ smp.last.after_ldrex

\* C23: LDREX R0,[R1]; STREX R2,R3,[R1] on one processor: when another processor
\* wrote to [R1] between the two, the STREX fails, R2 = 1, and leaves memory as
\* it was; when none did it succeeds, R2 = 0, and memory holds R3
C23_StrexFailsAfterInterveningWrite ==
    StrexAfterLdrex =>
        IF smp.last.intervening
        THEN /\ smp.proc[smp.last.p].R2 = 1
             /\ smp.mem[smp.last.address] = smp.last.before
        ELSE /\ smp.proc[smp.last.p].R2 = 0
             /\ smp.mem[smp.last.address] = smp.last.value

\* what the emitted code does: the STREX that follows the processor's LDREX of
\* the same address succeeds whatever other processors wrote in between
StrexAfterLdrexSucceeds ==
    StrexAfterLdrex =>
        /\ smp.proc[smp.last.p].R2 = 0
        /\ smp.mem[smp.last.address] = smp.last.value

(***************************************************************************)
(* BXWritePC and SetGEFlagsCompressed                                      *)
(***************************************************************************)
\* what BXWritePC is to leave in PC: v & 0xFFFFFFFE if bit 0 of v is set, v &
\* 0xFFFFFFFC otherwise
BXWritePC_PC(v) ==
    FromBits([j \in 0 .. 63 |->
                 IF j = 0 \/ j > 31 THEN 0
                 ELSE IF j = 1 THEN Bit(v, 0) * Bit(v, 1)
                 ELSE Bit(v, j)])

\* and in upper_location_descriptor: T is bit 0 of v, the other bits are those of
\* the block's descriptor with single-stepping cleared
BXWritePC_Upper(l, v) ==
    FromBits([j \in 0 .. 63 |->
                 IF j = 0 THEN Bit(v, 0)
                 ELSE IF j > 31 THEN 0
                 ELSE Bit(l.upper, j)])

\* C24: BXWritePC(v) leaves PC = v & 0xFFFFFFFE and T = 1 if bit 0 of v is set,
\* PC = v & 0xFFFFFFFC and T = 0 otherwise, the other bits of
\* upper_location_descriptor those of the emitting block's descriptor with
\* single-stepping cleared; and the lowering for an immediate and the lowering
\* for a register store the same PC and upper_location_descriptor
C24_BXWritePC ==
    gst.opcode = "BXWritePC" /\ gst.ran =>
        /\ gst.js.pc = BXWritePC_PC(gst.arg)
        /\ gst.js.upper_location_descriptor = BXWritePC_Upper(gst.location, gst.arg)
        /\ BXWritePC_Immediate(NewGuestState, gst.location, gst.arg)
               = BXWritePC_Register(NewGuestState, gst.location, gst.arg)

\* the register lowering ran in a Thumb block with an argument whose bits 0 and 1
\* are 0 and 1: the PC is aligned to 4, T is cleared, the other bits stay
C24_Witness ==
    /\ gst.opcode = "BXWritePC" /\ gst.ran /\ ~gst.immediate
    /\ Bit(gst.arg, 0) = 0 /\ Bit(gst.arg, 1) = 1 /\ Bit(gst.arg, 31) = 1
    /\ Bit(gst.location.upper, 0) = 1 /\ Bit(gst.location.upper, 31) = 1
    /\ gst.location.single_step
    /\ Bit(gst.js.pc, 1) = 0
    /\ Bit(gst.js.upper_location_descriptor, 0) = 0

\* BX LR with LR = 0 gives PC = 0, T = 0
C24_WitnessS1 ==
    /\ gst.opcode = "BXWritePC" /\ gst.ran /\ gst.arg = ZeroReg
    /\ gst.js.pc = ZeroReg
    /\ Bit(gst.js.upper_location_descriptor, 0) = 0

\* what SetGEFlagsCompressed is to store: byte i is 0xFF if bit 16 + i of the
\* argument is set, 0 otherwise
CompressedGE(v) ==
    FromBits([j \in 0 .. 63 |-> IF j > 31 THEN 0 ELSE Bit(v, 16 + (j \div 8))])

\* C30: SetGEFlagsCompressed stores to cpsr_ge, for each i in 0..3, the byte 0xFF
\* if bit 16+i of its argument is set and 0x00 otherwise, and the lowering for an
\* immediate and the lowering for a register store the same value
C30_SetGEFlagsCompressed ==
    gst.opcode = "SetGEFlagsCompressed" /\ gst.ran =>
        /\ gst.js.cpsr_ge = CompressedGE(gst.arg)
        /\ SetGEFlagsCompressed_Immediate(NewGuestState, gst.arg)
               = SetGEFlagsCompressed_Register(NewGuestState, gst.arg)

\* what holds: the immediate lowering stores the bytes 0xFF / 0x00; the register
\* lowering stores 0x03 in the bytes of the set bits
SetGEFlagsCompressedAsEmitted ==
    gst.opcode = "SetGEFlagsCompressed" /\ gst.ran =>
        IF gst.immediate THEN gst.js.cpsr_ge = CompressedGE(gst.arg)
        ELSE gst.js.cpsr_ge = AND(CompressedGE(gst.arg), Word(771, 771))

(***************************************************************************)
(* ClearCache                                                              *)
(***************************************************************************)
\* InvalidateCacheRanges(r) frees no host code: the arena of e1 holds the blocks
\* of e at the same places, the invalidated ones included
KeepsHostCode(e, e1) ==
    /\ Len(e1.code) = Len(e.code)
    /\ \A i \in DOMAIN e.code :
          /\ e1.code[i].location = e.code[i].location
          /\ e1.code[i].kind = e.code[i].kind
          /\ e1.code[i].form = e.code[i].form
    /\ e.invalidated \subseteq e1.invalidated

\* the emitter state e1 that ClearCache has to leave
Cleared(e1) ==
    /\ e1.code = <<>>
    /\ \A l \in Locations : e1.block_descriptors[l] = NullPtr
    /\ e1.block_ranges = {}
    /\ config.enable_fast_dispatch => \A s \in Slots : e1.fast_dispatch_table[s] = EmptyEntry
    /\ e1.fastmem_patch_info = {}

\* the state half of C26: it holds of InvalidateCacheRanges and ClearCache called
\* in any state the emitter reaches
ClearCacheReclaims ==
    cpu.mode = "host" =>
        /\ \A r \in Ranges : KeepsHostCode(em, InvalidateCacheRanges(em, r))
        /\ Cleared(ClearCache(em))

\* the guest executes at a code pointer above the top of the arena: the arena
\* shrinks only in ClearCache, so this is code emitted before a ClearCache
InReclaimedCode == cpu.mode = "lost"

\* C26: InvalidateCacheRanges does not free the host code of the blocks it
\* invalidates, only ClearCache reclaims it; after ClearCache the block cache
\* holds no block, the guest-range map is empty, every fast dispatch entry is
\* empty (when fast dispatch is enabled) and no fastmem patch record remains; and
\* no later execution enters code emitted before the ClearCache.
C26_ClearCacheReclaims == ClearCacheReclaims /\ ~InReclaimedCode

\* the only jump into reclaimed code is a hit of the RSB
ReclaimedEntryOnlyThroughRSB == InReclaimedCode => cpu.via = "rsb_hit"

(***************************************************************************)
(* The RSB as a circular buffer                                            *)
(***************************************************************************)
\* the RSB has a power of two of slots, RSBPtrMask is that less one, and rsb_ptr
\* is one of the slots
RSBInBounds(j) ==
    /\ \E n \in 0 .. 30 : RSBPtrMask + 1 = Pow2(n)
    /\ DOMAIN j.rsb_location_descriptors = 0 .. RSBPtrMask
    /\ DOMAIN j.rsb_codeptrs = 0 .. RSBPtrMask
    /\ j.rsb_ptr \in 0 .. RSBPtrMask

\* the pop stores (rsb_ptr - 1) & RSBPtrMask back, and the handler has compared
\* and used the pair of exactly that slot
PopsPreviousSlot ==
    /\ js'.rsb_ptr = (IF js.rsb_ptr = 0 THEN RSBPtrMask ELSE js.rsb_ptr - 1)
    /\ js'.rsb_location_descriptors = js.rsb_location_descriptors
    /\ js'.rsb_codeptrs = js.rsb_codeptrs
    /\ IF PopMatches THEN JumpsToCached ELSE cpu'.via # "rsb_hit"

\* C27 (as stated): the RSB is a circular buffer whose size is a power of two and
\* rsb_ptr always lies in [0, RSBPtrMask]; every PopRSBHint replaces rsb_ptr by
\* (rsb_ptr - 1) & RSBPtrMask (wrapping from 0 to RSBPtrMask), stores it back
\* whether or not the entry matches, and inspects the descriptor / code pointer
\* pair at exactly that index.
C27_EveryPopDecrements ==
    [][/\ RSBInBounds(js) /\ RSBInBounds(js')
       /\ PopStep => PopsPreviousSlot]_vars

\* C27 (amended): the same of every PopRSBHint terminal emitted as the branch to
\* terminal_handler_pop_rsb_hint (optimizations enabled, block not
\* single-stepping); a PopRSBHint terminal of any other block returns to the
\* dispatcher and leaves rsb_ptr and the RSB as they are.
C27_HandlerPopDecrements ==
    [][/\ RSBInBounds(js) /\ RSBInBounds(js')
       /\ PopHandlerStep => PopsPreviousSlot
       /\ (PopStep /\ ~PopHandlerStep)
          => /\ js'.rsb_ptr = js.rsb_ptr
             /\ js'.rsb_location_descriptors = js.rsb_location_descriptors
             /\ js'.rsb_codeptrs = js.rsb_codeptrs]_vars

\* a pop has just missed with rsb_ptr wrapping from 0 to RSBPtrMask, on a slot
\* that a push had filled
C27_Witness ==
    /\ cpu.via \in {"rsb_miss_return", "rsb_miss_fast_dispatch"}
    /\ js.rsb_ptr = RSBPtrMask
    /\ js.rsb_location_descriptors[RSBPtrMask] # EmptyDescriptor

\* a pop has just hit after wrapping
C27_WitnessHit ==
    /\ cpu.via = "rsb_hit"
    /\ js.rsb_ptr = RSBPtrMask

(***************************************************************************)
(* Block linking                                                           *)
(***************************************************************************)
\* the link sites the emitter has emitted, and those it has recorded for d
EmittedLinkSites(form) == {i \in DOMAIN em.code : em.code[i].form = form}
RecordedLinkSites(d) == em.patch_information[d].jg \cup em.patch_information[d].jmp

\* the site jumps to the block that the cache holds for d, or, the cache holding
\* none, is in the form that stores d's PC and returns to the dispatcher (the
\* form EmitPatchJg / EmitPatchJmp give to a null target)
LinkedToCurrent(i, d) ==
    /\ i \in DOMAIN em.code
    /\ em.code[i].next = d
    /\ IF GetBasicBlock(em, d) # NullPtr
       THEN /\ em.code[i].jump = GetBasicBlock(em, d)
            /\ em.code[i].jump \in DOMAIN em.code
            /\ em.code[em.code[i].jump].location = d
       ELSE em.code[i].jump = NullPtr

\* C29: after any sequence of Emit, InvalidateCacheRanges and ClearCache, every
\* recorded LinkBlock / LinkBlockFast patch site for a target descriptor d jumps
\* to d's current entrypoint if d is in the block cache, and otherwise is in the
\* unpatched form; no patch site jumps to the entrypoint of a block that has been
\* removed; and every emitted link site is recorded in patch_information[d].
C29_BlockLinking ==
    /\ \A d \in Locations : \A i \in RecordedLinkSites(d) :
          /\ LinkedToCurrent(i, d)
          /\ em.code[i].jump \notin em.invalidated
    /\ \A i \in EmittedLinkSites("jg") : i \in em.patch_information[em.code[i].next].jg
    /\ \A i \in EmittedLinkSites("jmp") : i \in em.patch_information[em.code[i].next].jmp

\* a site jumps to the block emitted again for a descriptor whose earlier
\* block, older than the site, has been removed
C29_Witness ==
    \E i \in EmittedLinkSites("jg") \cup EmittedLinkSites("jmp"), x \in em.invalidated :
        /\ em.code[x].location = em.code[i].next
        /\ em.code[i].jump # NullPtr
        /\ em.code[i].jump # x
        /\ x < i

\* a site whose target has been removed is in the unpatched form
C29_WitnessUnpatched ==
    \E i \in EmittedLinkSites("jg") \cup EmittedLinkSites("jmp"), x \in em.invalidated :
        /\ em.code[x].location = em.code[i].next
        /\ x < i
        /\ i \notin em.invalidated
        /\ em.code[i].jump = NullPtr

(***************************************************************************)
(* The flags                                                               *)
(***************************************************************************)
\* the step has run a flag instruction of the given opcodes
FlagStep(opcodes) == flg'.opcode \in opcodes
\* bit k of cpsr_nzcv before and after the step
NZCVBit(k) == Bit(flg.js.cpsr_nzcv, k)
NZCVBitAfter(k) == Bit(flg'.js.cpsr_nzcv, k)

\* C31: each of SetNFlag, SetZFlag, SetCFlag and SetVFlag sets only its own bit of
\* cpsr_nzcv (31, 30, 29, 28) to the value of the argument and leaves every other
\* bit unchanged, for immediate and register arguments alike; a following Get of
\* the same flag returns the value just set; and after any sequence of
\* SetCpsrNZCV / SetCpsrNZCVRaw / SetCpsrNZCVQ / Set{N,Z,C,V}Flag the low 28 bits
\* of cpsr_nzcv are zero.
C31_SetFlagSetsOwnBit ==
    [][/\ FlagStep({"SetFlag"}) =>
             /\ \A k \in 0 .. 31 :
                   NZCVBitAfter(k) = IF k = FlagBit[flg'.flag] THEN Bit(flg'.arg, 0)
                                     ELSE NZCVBit(k)
             /\ flg'.js.cpsr_q = flg.js.cpsr_q
             /\ GetFlag(flg'.js, FlagBit[flg'.flag]) = flg'.arg
       /\ (FlagStep({"GetFlag"}) /\ flg.opcode = "SetFlag" /\ flg'.flag = flg.flag)
             => flg'.result = flg.arg /\ flg'.js = flg.js
       /\ \A k \in 0 .. 27 : NZCVBitAfter(k) = 0]_vars

\* a SetZFlag with a register holding 0 has cleared Z and kept N and C
C31_Witness ==
    /\ flg.opcode = "SetFlag" /\ flg.flag = "Z" /\ ~flg.immediate /\ flg.arg = Imm(0)
    /\ Bit(flg.js.cpsr_nzcv, 31) = 1
    /\ Bit(flg.js.cpsr_nzcv, 30) = 0
    /\ Bit(flg.js.cpsr_nzcv, 29) = 1

\* a GetCFlag has returned 1 with V clear
C31_WitnessGet ==
    /\ flg.opcode = "GetFlag" /\ flg.flag = "C" /\ flg.result = Imm(1)
    /\ Bit(flg.js.cpsr_nzcv, 28) = 0

\* cpsr_q is non-zero
QFlag(j) == j.cpsr_q # ZeroReg

C32_WitnessClear ==
    /\ flg.opcode = "SetCpsrNZCVQ" /\ ~flg.immediate
    /\ Bit(flg.arg, 27) = 0 /\ Bit(flg.arg, 31) = 1 /\ Bit(flg.arg, 0) = 1
    /\ ~QFlag(flg.js)
    /\ Bit(flg.js.cpsr_nzcv, 31) = 1

(***************************************************************************)
(* The upper half of the location descriptor across a link                 *)
(***************************************************************************)
\* the step runs a LinkBlock or LinkBlockFast terminal of the emitted block
LinkStep ==
    /\ run.at = "terminal"
    /\ run.term[1].kind \in {"LinkBlock", "LinkBlockFast"}
    /\ run'.at = "host"

\* the upper 32 bits of next's descriptor with single-stepping cleared, and with
\* the E bit cleared under always_little_endian
UpperOfNext(next) ==
    LET upper == UniqueHash([next EXCEPT !.single_step = FALSE]).hi
    IN  IF config.always_little_endian /\ EFlag(next) THEN upper - 2 ELSE upper

\* the store of EmitSetUpperLocationDescriptor is not emitted: a JitState whose
\* upper half is none of the descriptors' keeps it
StoreOmitted(new_location, old_location) ==
    EmitSetUpperLocationDescriptor([js EXCEPT !.upper = AllOnes], new_location,
                                   old_location).upper = AllOnes

C33_WitnessStore ==
    /\ ~config.always_little_endian
    /\ blk.status = "emitted"
    /\ blk.ir.terminal.kind = "LinkBlockFast"
    /\ blk.ir.location.upper = 0 /\ blk.ir.location.single_step
    /\ run.at = "host"
    /\ js.pc = 4 /\ js.upper = 2

(***************************************************************************)
(* Terminals of single-stepping and unoptimised blocks                     *)
(***************************************************************************)
\* the step runs the terminal of a block, of one of the given kinds
TerminalOf(kinds) == cpu.mode = "term" /\ TerminalImage.kind \in kinds
\* the block of the terminal is single-stepping, or optimizations are off
Unlinked == TerminalImage.location.single_step \/ ~config.enable_optimizations
\* the step ends in the dispatcher
ReturnsToDispatcher == cpu'.mode = "host"
\* no patch site is recorded for the terminal at the code pointer i
NoPatchSite(e, i) ==
    \A d \in Locations : i \notin e.patch_information[d].jg \cup e.patch_information[d].jmp
                                  \cup e.patch_information[d].mov_x0

\* C34: when the block is single-stepping or enable_optimizations is false,
\* LinkBlock and LinkBlockFast terminals store the target PC and return to the
\* dispatcher without recording a patch site, and PopRSBHint returns to the
\* dispatcher without touching the RSB; FastDispatchHint returns to the
\* dispatcher when single-stepping or when enable_fast_dispatch is false. Hence
\* in single-step mode no terminal transfers control directly into another block.
C34_UnlinkedTerminalsReturn ==
    [][/\ (TerminalOf({"LinkBlock", "LinkBlockFast"}) /\ Unlinked)
             => /\ js'.pc = TerminalImage.next.pc
                /\ ReturnsToDispatcher
                /\ NoPatchSite(em, cpu.at) /\ NoPatchSite(em', cpu.at)
                /\ js'.rsb_ptr = js.rsb_ptr
       /\ (TerminalOf({"PopRSBHint"}) /\ Unlinked)
             => /\ ReturnsToDispatcher
                /\ js'.rsb_ptr = js.rsb_ptr
                /\ js'.rsb_location_descriptors = js.rsb_location_descriptors
                /\ js'.rsb_codeptrs = js.rsb_codeptrs
       /\ (/\ TerminalOf({"FastDispatchHint"})
           /\ TerminalImage.location.single_step \/ ~config.enable_fast_dispatch)
             => ReturnsToDispatcher /\ em' = em
       /\ (cpu.mode = "term" /\ TerminalImage.location.single_step)
             => ReturnsToDispatcher]_vars

\* with optimizations on, the PopRSBHint of a single-stepping block has returned
\* to the dispatcher although the slot below rsb_ptr holds the live descriptor
\* and the code pointer of a block
C34_Witness ==
    /\ config.enable_optimizations
    /\ cpu.via = "PopRSBHint_return"
    /\ LET index == (js.rsb_ptr + RSBPtrMask) % (RSBPtrMask + 1) IN
          /\ js.rsb_location_descriptors[index] = calculate_location_descriptor(js)
          /\ js.rsb_codeptrs[index] \in DOMAIN em.code

\* a single-stepping LinkBlock whose target is in the cache is in the code, in
\* the form that returns, and the guest is in the dispatcher at the target's PC
C34_WitnessLink ==
    /\ cpu.mode = "host"
    /\ \E i \in DOMAIN em.code :
          /\ em.code[i].kind = "LinkBlock" /\ em.code[i].location.single_step
          /\ em.code[i].form = "return"
          /\ GetBasicBlock(em, em.code[i].next) # NullPtr
          /\ js.pc = em.code[i].next.pc
          /\ NoPatchSite(em, i)

(***************************************************************************)
(* The guest range of a block                                              *)
(***************************************************************************)
\* the ranges invalidated hold the address of an instruction of the block
HitsBlock ==
    \E x \in TranslatedAddresses(rng.pc, rng.count, rng.size) : Contains(rng.ranges, x)
\* the block runs over the top of the address space and on from address 0
WrapsPastZero == ~LessEq(rng.pc, rng.end_pc) /\ rng.end_pc # ZeroReg

\* C35: Emit registers every block in the guest-range map under the closed
\* interval [start PC, end PC - 1] computed in 32-bit arithmetic, together with
\* the block's descriptor, so that InvalidateCacheRanges with any range that
\* intersects a guest address translated into the block yields that descriptor
\* for removal; this holds also when the block's end PC wraps to 0 (the interval
\* then ends at 0xFFFFFFFF).
C35_RangeYieldsBlock ==
    (rng.op = "InvalidateCacheRanges" /\ HitsBlock) => rng.pc \in rng.erase

\* as the code has it: every block but one that runs on from address 0 is yielded
RangeYieldsBlockUnlessPastZero ==
    (rng.op = "InvalidateCacheRanges" /\ HitsBlock /\ ~WrapsPastZero) => rng.pc \in rng.erase
\* a block whose end PC is 0 is under an interval that ends at 0xFFFFFFFF
RangeEndsAtTop ==
    (rng.op # "none" /\ rng.end_pc = ZeroReg)
        => \E b \in rng.entries : b.range = closed(rng.pc, Word(65535, 65535))

(***************************************************************************)
(* The monitor's lock                                                      *)
(***************************************************************************)
\* where a processor is between its Lock() and its Unlock()
HoldsLock(p) ==
    \/ mpc[p] \in {"rm_mark", "rm_op", "rm_unlock", "dx_check", "dx_op", "dx_unlock",
                   "cp_clear", "cl_clear"}
    \/ mpc[p] = "dx_ret" /\ mloc[p].ok

C37_SavedValueIsLastRead ==
    /\ [](\A p \in Procs :
             mpc[p] = "dx_op"
                 => /\ mhist[p].addr = MaskedAddress(marg[p].addr)
                    /\ mloc[p].value = mhist[p].value)
    /\ [][\A p \in Procs :
             /\ (mpc[p] = "dx_check" /\ mpc'[p] # "dx_check"
                 /\ exclusive_addresses[p] # MaskedAddress(marg[p].addr))
                   => mpc'[p] = "dx_ret" /\ ~mloc'[p].ok
             /\ (mpc[p] = "dx_ret" /\ mpc'[p] # "dx_ret" /\ ~mloc[p].ok)
                   => mpc'[p] = "idle" /\ mem' = mem]_vars

\* a processor is handed 1, the value of its last marked read, while another
\* processor's last marked read, of the other value, is kept in the monitor
C37_Witness ==
    \E p, q \in Procs :
        /\ p # q
        /\ mpc[p] = "dx_op" /\ mloc[p].value = 1
        /\ mhist[q].addr # INVALID_EXCLUSIVE_ADDRESS /\ mhist[q].value = 0
        /\ exclusive_values[q] = 0

\* a DoExclusiveOperation without a reservation for its address is about to
\* return false
C37_WitnessFalse ==
    \E p \in Procs :
        /\ mpc[p] = "dx_ret" /\ ~mloc[p].ok
        /\ exclusive_addresses[p] # MaskedAddress(marg[p].addr)

(***************************************************************************)
(* A32 ExclusiveWriteMemory                                                *)
(***************************************************************************)
\* the step is the STREX recorded in smp'.last
StrexStep == smp' # smp /\ smp'.last.kind = "STREX"
\* the processor of the instruction of the step, before and after it
Before == smp.proc[smp'.last.p]
After == smp'.proc[smp'.last.p]
\* exclusive_state is set and the address is in the granule of exclusive_address
Reserved ==
    /\ Before.exclusive_state # 0
    /\ BitAnd(smp'.last.address, RESERVATION_GRANULE_MASK)
          = BitAnd(Before.exclusive_address, RESERVATION_GRANULE_MASK)
\* what the step leaves if the write callback ran, and if it did not
CallbackRan ==
    /\ smp'.mem = [smp.mem EXCEPT ![smp'.last.address] = smp'.last.value]
    /\ \A q \in Procs \ {smp'.last.p} :
          smp'.proc[q] = MemoryWrite32(smp, smp'.last.p, smp'.last.address,
                                       smp'.last.value).proc[q]
CallbackDidNotRun ==
    /\ smp'.mem = smp.mem
    /\ \A q \in Procs \ {smp'.last.p} : smp'.proc[q] = smp.proc[q]

\* C38: A32 ExclusiveWriteMemory invokes the memory write callback if and only if
\* exclusive_state is non-zero and the target address equals exclusive_address
\* under RESERVATION_GRANULE_MASK; its result is 0 exactly when the write was
\* performed and 1 otherwise; a successful exclusive write clears
\* exclusive_state, so after SetExclusive at most one exclusive write succeeds
\* until the next SetExclusive, and after ClearExclusive every exclusive write
\* fails until the next SetExclusive.
C38_ExclusiveWrite ==
    [][/\ StrexStep =>
             IF Reserved
             THEN CallbackRan /\ After.R2 = 0 /\ After.exclusive_state = 0
             ELSE /\ CallbackDidNotRun /\ After.R2 = 1
                  /\ After.exclusive_state = Before.exclusive_state
       /\ \A p \in Procs :
             /\ (smp.proc[p].exclusive_state = 0 /\ smp'.proc[p].exclusive_state # 0)
                   => smp'.last.kind = "LDREX" /\ smp'.last.p = p
             /\ (smp' # smp /\ smp'.last.kind = "CLREX" /\ smp'.last.p = p)
                   => smp'.proc[p].exclusive_state = 0]_vars

\* an exclusive write has been performed: result 0, exclusive_state cleared, the
\* memory changed to the value
C38_Witness ==
    /\ smp.last.kind = "STREX"
    /\ smp.proc[smp.last.p].R2 = 0
    /\ smp.proc[smp.last.p].exclusive_state = 0
    /\ smp.mem[smp.last.address] = smp.last.value
    /\ smp.last.before # smp.last.value

\* an exclusive write to another granule has failed with exclusive_state set
C38_WitnessFail ==
    /\ smp.last.kind = "STREX"
    /\ smp.proc[smp.last.p].R2 = 1
    /\ smp.proc[smp.last.p].exclusive_state = 1
    /\ smp.proc[smp.last.p].exclusive_address # smp.last.address

(***************************************************************************)
(* A32 CallSupervisor                                                      *)
(***************************************************************************)
\* the callbacks made so far are the first of AddTicks, CallSVC,
\* GetTicksRemaining, in that order, each with the FP state of the host
CallbacksInOrder ==
    /\ Len(svc.calls) <= 3
    /\ \A i \in 1 .. Len(svc.calls) :
          /\ svc.calls[i].fn = <<"AddTicks", "CallSVC", "GetTicksRemaining">>[i]
          /\ svc.calls[i].fp = "host"
    /\ Len(svc.calls) >= 1
          => svc.calls[1].arg = SubW(svc.entry.cycles_to_run, svc.entry.X26, 64).v
    /\ Len(svc.calls) >= 2 => svc.calls[2].arg = Imm(svc.imm)

\* C39: on an A32 supervisor call the emitted code calls the embedder callbacks
\* in the order AddTicks(cycles_to_run - remaining cycles), CallSVC(immediate),
\* GetTicksRemaining, and then sets both cycles_to_run and the remaining-cycles
\* counter to the value GetTicksRemaining returned; the FP state is switched to
\* the host before the callbacks and back to the guest after them.
C39_CallSupervisor ==
    /\ CallbacksInOrder
    /\ svc.at = "done"
          => /\ Len(svc.calls) = 3
             /\ svc.cycles_to_run = svc.ABI_RETURN
             /\ svc.X26 = svc.ABI_RETURN
             /\ svc.fp = "guest"

\* a supervisor call is over that was reached with a negative count of remaining
\* cycles and got ticks from the embedder that differ from both counters
C39_Witness ==
    /\ svc.at = "done"
    /\ svc.entry.X26 = SubW(ZeroReg, Imm(2), 64).v
    /\ svc.calls[1].arg = Imm(12)
    /\ svc.ABI_RETURN = Imm(70000)
    /\ svc.X26 = Imm(70000)

(***************************************************************************)
(* mp::conjunction                                                         *)
(***************************************************************************)
\* the positions of the list whose metavalue is false
FalseAt(vs) == {i \in 1 .. Len(vs) : ~vs[i].value}
\* the least of a non-empty set of positions
First(S) == CHOOSE i \in S : \A k \in S : i <= k

\* C40: mp::conjunction<Vs...> is the conjunction of the metavalues Vs with
\* short-circuiting and type preservation: for a non-empty list it is the first
\* metavalue whose value is false, or the last metavalue when all are true, so
\* conjunction_v equals the logical AND of the values; for the empty list it is
\* false_type.
C40_Conjunction ==
    mpv.op = "conjunction" =>
        IF mpv.vs = <<>>
        THEN mpv.type = false_type
        ELSE /\ mpv.type = IF FalseAt(mpv.vs) # {}
                           THEN mpv.vs[First(FalseAt(mpv.vs))]
                           ELSE mpv.vs[Len(mpv.vs)]
             /\ mpv.v = (\A i \in 1 .. Len(mpv.vs) : mpv.vs[i].value)

\* conjunction<T1, F1, false_type> is F1, the first of two false metavalues
C40_Witness ==
    /\ mpv.op = "conjunction"
    /\ Len(mpv.vs) = 3
    /\ mpv.vs[1].type = "T1" /\ mpv.vs[2].type = "F1" /\ mpv.vs[3].type = "false_type"
    /\ mpv.type.type = "F1" /\ ~mpv.v

\* conjunction<> is false_type
C40_WitnessEmpty == mpv.op = "conjunction" /\ mpv.vs = <<>> /\ mpv.type = false_type

\* conjunction<true_type, T2, T1> is T1, the last of three true metavalues
C40_WitnessAllTrue ==
    /\ mpv.op = "conjunction"
    /\ Len(mpv.vs) = 3 /\ FalseAt(mpv.vs) = {}
    /\ mpv.vs[3].type = "T1" /\ mpv.vs[1].type = "true_type"
    /\ mpv.type.type = "T1" /\ mpv.v
=============================================================================
